---- MODULE Spec2Model ----
(***************************************************************************)
(* The study execution engine of the CFD compute worker: the dispatcher    *)
(* (parseMessage), the active-study registry (StudyCache), the three stage *)
(* pipelines (startMeshing, startSimulation, postproc) with their catch    *)
(* and finally handlers, the abort operations and the process supervisor   *)
(* (execute).                                                              *)
(*                                                                         *)
(* A pipeline is a promise chain.  Between two asynchronous operations     *)
(* (a repository round trip, a download, an extraction, the life of a      *)
(* child process) the chain runs without yielding, so one action of the    *)
(* model is: the completion of the pending asynchronous operation, the     *)
(* synchronous handlers that follow it, and the initiation of the next     *)
(* asynchronous operation (or the catch and finally handlers).             *)
(***************************************************************************)
EXTENDS Naturals, Sequences, FiniteSets

\* Number of start-* messages the bus delivers (one Study object each).
MaxPipes == 2

Pipes == 1..MaxPipes

\* Study references (msg.nodeRef) and simulation references (msg.simNodeRef).
NodeRefs == {"n1", "n2"}
SimRefs == {"s1", "s2"}

STUDY_STEP_MESHING == "meshing"
STUDY_STEP_SIMULATION == "simulation"
STUDY_STEP_POSTPROC == "postproc"
Stages == {STUDY_STEP_MESHING, STUDY_STEP_SIMULATION, STUDY_STEP_POSTPROC}

BG_TASK_STATUS_TODO == "TODO"
BG_TASK_STATUS_PENDING == "PENDING"
BG_TASK_STATUS_RUNNING == "RUNNING"
BG_TASK_STATUS_DONE == "DONE"
BG_TASK_STATUS_FAILED == "FAILED"
TaskStatus == {BG_TASK_STATUS_TODO, BG_TASK_STATUS_PENDING, BG_TASK_STATUS_RUNNING,
               BG_TASK_STATUS_DONE, BG_TASK_STATUS_FAILED}

\* What a claim round trip can answer: a task status, or a rejected request.
ClaimAnswers == TaskStatus \cup {"error"}

\* No Study object (an empty slot of the `studies` map).
NoStudy == 0

VARIABLES
    refs,       \* the study references the messages of this run name
    study,      \* the Study objects, one per start message
    studies,    \* the registry: nodeRef -> registered Study object
    ws,         \* the workspace directory of each study on disk
    crashed,    \* the worker died of an uncaught exception
    out,        \* what the last step sent: claims, updates, spawns, signals, errors
    client,     \* the call of the Alfresco client that is followed step by step
    exec        \* the call of execute() that is followed step by step

vars == <<refs, study, studies, ws, crashed, out, client, exec>>

-----------------------------------------------------------------------------
(* The events a step emits. *)

Ev(type, pipe, task, status, stage, stderr) ==
    [type |-> type, pipe |-> pipe, task |-> task, status |-> status,
     stage |-> stage, stderr |-> stderr]

\* The task an update or a claim of a stage is addressed to: the simulation
\* calls carry the simulation reference, the others the study reference.
TaskOf(stg, nodeRef, simNodeRef) ==
    IF stg = STUDY_STEP_SIMULATION THEN <<stg, simNodeRef>> ELSE <<stg, nodeRef>>

Tasks == {TaskOf(g, n, s) : g \in Stages, n \in NodeRefs, s \in SimRefs}

-----------------------------------------------------------------------------
(* The pipelines: the asynchronous operations and the synchronous calls     *)
(* between them, in chain order.                                            *)

Op(o, a) == [op |-> o, arg |-> a]

MeshingOps ==
    << Op("claim", "-"),
       Op("rm", "-"),
       Op("setup", "-"),
       Op("update", "download input folder"),
       Op("getFolder", "cfd:inputs"),
       Op("download", "-"),
       Op("update", "extraction"),
       Op("extract", "-"),
       Op("update", "meshing"),
       Op("execute", "preproc"),
       Op("update", "compress"),
       Op("compress", STUDY_STEP_MESHING),
       Op("markDone", "-") >>

SimulationOps ==
    << Op("claim", "-"),
       Op("rm", "-"),
       Op("update", "uncompress"),
       Op("uncompress", STUDY_STEP_MESHING),
       Op("update", "simulation"),
       Op("execute", "simulation"),
       Op("update", "compressing"),
       Op("compress", STUDY_STEP_SIMULATION) >>

\* Variant: polluant is run before probesMeanYear.
PostprocOps_Reordered ==
    << Op("setup", "-"),
       Op("claim", "-"),
       Op("rm", "-"),
       Op("update", "uncompress"),
       Op("uncompress", STUDY_STEP_SIMULATION),
       Op("getFolder", "cfd:postproc_inputs"),
       Op("download", "-"),
       Op("update", "extraction"),
       Op("extract", "-"),
       Op("update", "emiCalc"),
       Op("execute", "emiCalc"),
       Op("update", "meanAndConcat"),
       Op("execute", "meanAndConcat"),
       Op("update", "polluant"),
       Op("execute", "polluant"),
       Op("update", "probesMeanYear"),
       Op("execute", "probesMeanYear"),
       Op("update", "compress"),
       Op("compress", STUDY_STEP_POSTPROC),
       Op("update", "uploading"),
       Op("upload", "final-results.7z"),
       Op("markDone", "-") >>

PostprocOps ==
    << Op("setup", "-"),
       Op("claim", "-"),
       Op("rm", "-"),
       Op("update", "uncompress"),
       Op("uncompress", STUDY_STEP_SIMULATION),
       Op("getFolder", "cfd:postproc_inputs"),
       Op("download", "-"),
       Op("update", "extraction"),
       Op("extract", "-"),
       Op("update", "emiCalc"),
       Op("execute", "emiCalc"),
       Op("update", "meanAndConcat"),
       Op("execute", "meanAndConcat"),
       Op("update", "probesMeanYear"),
       Op("execute", "probesMeanYear"),
       Op("update", "polluant"),
       Op("execute", "polluant"),
       Op("update", "compress"),
       Op("compress", STUDY_STEP_POSTPROC),
       Op("update", "uploading"),
       Op("upload", "final-results.7z"),
       Op("markDone", "-") >>

OpsOf(stg) ==
    CASE stg = STUDY_STEP_MESHING -> MeshingOps
      [] stg = STUDY_STEP_SIMULATION -> SimulationOps
      [] OTHER -> PostprocOps

\* The operations that run a child process through execute().
ChildOps == {"rm", "execute", "compress", "uncompress"}

-----------------------------------------------------------------------------
(* The Study object. *)

\* A Study object as the constructor leaves it; `cmd` is "-" until a start
\* message creates it.
NewStudy ==
    [cmd |-> "-", nodeRef |-> "-", simNodeRef |-> "-",
     pc |-> "idle",       \* idle, delay, await, done, closed, rejected
     at |-> 0,            \* the pending operation (an index of OpsOf(cmd))
     step |-> "null",     \* this.step
     child |-> "none",    \* this.child: none, alive, killed, dead
     rec |-> "null",      \* status of this.meshing / this.sim / this.pp, or null
     claimed |-> FALSE,   \* the claim call answered RUNNING
     result |-> "none",   \* this.result.status
     stderr |-> "",       \* the stderr the next update carries
     label |-> "-",       \* the stage label of the record the updates send
     trail |-> << >>,     \* what the chain has done: labels reported, transfers, programs
     finals |-> 0,        \* updates sent by the finaliser
     final |-> "-"]       \* the status the pipeline ended with

\* No call of the Alfresco client is followed step by step: the pipelines
\* see a download or an upload by its outcome only.
Call(call, pc) ==
    [call |-> call, pc |-> pc, outcome |-> "pending",
     fileSize |-> 0, numChunks |-> 0, counter |-> 0, pos |-> 0, puts |-> << >>,
     status |-> "-", polls |-> 0, written |-> FALSE]

NoCall == Call("none", "-")

\* A call of Study.execute: the descriptors it was given and what the disk
\* holds at the path of each, the argv built so far, the error the builder
\* threw, the events of the child and what the returned promise settled to.
Execution(args, disk) ==
    [pc |-> "build", args |-> args, disk |-> disk, argv |-> << >>, thrown |-> "-",
     stdout |-> << >>, stderr |-> << >>, events |-> << >>,
     outcome |-> [kind |-> "pending", code |-> "-", signal |-> "-",
                  stdout |-> << >>, stderr |-> << >>]]

\* No call of execute() is followed step by step: the pipelines see a
\* program by its spawn and its close only.
NoExec == [Execution(<< >>, << >>) EXCEPT !.pc = "none"]

\* The state of the worker when it subscribes to the queue.  A workspace
\* directory is absent, empty or filled; a previous stage may have left one.
Start(named) ==
    /\ refs = named
    /\ study = [p \in Pipes |-> NewStudy]
    /\ studies = [n \in NodeRefs |-> NoStudy]
    /\ ws \in [NodeRefs -> {"absent", "filled"}]
    /\ \A n \in NodeRefs \ named : ws[n] = "absent"
    /\ crashed = FALSE
    /\ out = << >>
    /\ client = NoCall
    /\ exec = NoExec

\* All messages name one study.
Init == Start({"n1"})

-----------------------------------------------------------------------------
(* The state a step works on: the Study objects, the registry, the disk,    *)
(* and the events emitted so far in the step.                               *)

World(st, reg, dirs, dead, ev) ==
    [st |-> st, reg |-> reg, ws |-> dirs, crashed |-> dead, ev |-> ev]

Here == World(study, studies, ws, crashed, << >>)

Emit(w, e) == [w EXCEPT !.ev = Append(@, e)]

TaskOfStudy(s) == TaskOf(s.cmd, s.nodeRef, s.simNodeRef)

\* StudyCache
StudyCacheRegister(reg, nodeRef, p) == [reg EXCEPT ![nodeRef] = p]

\* Variant: the entry is not deleted.
StudyCacheUnregister_Kept(reg, nodeRef) == reg

\* Variant: unregistering one study empties the registry.
StudyCacheUnregister_All(reg, nodeRef) == [n \in DOMAIN reg |-> NoStudy]

StudyCacheUnregister(reg, nodeRef) == [reg EXCEPT ![nodeRef] = NoStudy]

StudyCacheExists(reg, nodeRef) == reg[nodeRef] # NoStudy

StudyCacheGet(reg, nodeRef) == reg[nodeRef]

\* Study.setup: create the workspace directory if it is absent.
Setup(w, p) ==
    LET n == w.st[p].nodeRef
    IN  IF w.ws[n] = "absent" THEN [w EXCEPT !.ws[n] = "empty"] ELSE w

\* The status an update of the pipeline sends: m.status of the meshing
\* record, res.status of the result of the other two stages.
StatusSent(s) == IF s.cmd = STUDY_STEP_MESHING THEN s.rec ELSE s.result

\* updateMeshingTask / updateSimulationTask / updatePostprocTask
UpdateTask(w, p, label) ==
    LET s == [w.st[p] EXCEPT !.label = IF label = "null" THEN @ ELSE label,
                             !.trail = IF label = "null" THEN @ ELSE Append(@, label)]
        \* the progress updates of the meshing chain pass no stdout or stderr
        err == IF s.cmd = STUDY_STEP_MESHING /\ label # "null"
               THEN "undefined" ELSE s.stderr
    IN  Emit([w EXCEPT !.st[p] = s],
             Ev("update", p, TaskOfStudy(s), StatusSent(s), s.label, err))

\* Variant: the rejection is dropped.
Catch_Swallowed(w, p, kind, msg) == w

\* The .catch handler of each pipeline; kind is "Error" for a thrown Error
\* (msg its message) and "result" for the rejection of execute() (msg the
\* stderr of the child).
Catch(w, p, kind, msg) ==
    LET s == w.st[p]
    IN  CASE s.cmd = STUDY_STEP_MESHING ->
                IF kind = "Error"
                THEN [w EXCEPT !.st[p].rec = BG_TASK_STATUS_FAILED,
                               !.st[p].stderr = msg,
                               !.st[p].label = "undefined"]
                ELSE IF s.rec = "null" THEN w
                ELSE [w EXCEPT !.st[p].rec = BG_TASK_STATUS_FAILED,
                               !.st[p].stderr = msg]
          [] OTHER ->
                [w EXCEPT !.st[p].result = BG_TASK_STATUS_FAILED,
                          !.st[p].stderr = msg]

\* Variant: the result status is sent as it is.
FinalSimulationStatus_Unpromoted(result, simStatus) == result

\* Variant: the finaliser reports every simulation FAILED.
FinalSimulationStatus_Failing(result, simStatus) == BG_TASK_STATUS_FAILED

\* The status the simulation finaliser decides when the result is still RUNNING.
FinalSimulationStatus(result, simStatus) ==
    IF result = BG_TASK_STATUS_RUNNING
    THEN (IF simStatus # BG_TASK_STATUS_RUNNING THEN simStatus ELSE BG_TASK_STATUS_FAILED)
    ELSE result

\* Whether the finaliser finds a record to update: self.meshing, self.sim, self.pp.
HasRecord(s) == s.rec # "null"

\* The chain has ended: nothing reads the Study object any more but the
\* handler of the final update's answer, which compares statuses.
Ended(s) ==
    [s EXCEPT !.at = 0, !.step = "null", !.rec = "null", !.result = "none",
              !.stderr = "", !.label = "-", !.trail = << >>]

\* The .finally handler: unregister, then send the final update if there is
\* a record, without awaiting its answer.
Finalise(w, p) ==
    LET s0 == w.st[p]
        s1 == IF s0.cmd = STUDY_STEP_SIMULATION /\ HasRecord(s0)
              THEN [s0 EXCEPT !.result = FinalSimulationStatus(s0.result, s0.rec)]
              ELSE s0
        w1 == [w EXCEPT !.reg = StudyCacheUnregister(w.reg, s0.nodeRef),
                        !.st[p] = [s1 EXCEPT !.pc = "done", !.final = StatusSent(s1)]]
        w2 == IF HasRecord(s1)
              THEN UpdateTask([w1 EXCEPT !.st[p].finals = @ + 1], p, "null")
              ELSE w1
    IN  [w2 EXCEPT !.st[p] = Ended(@)]

\* Variant: the .catch handler throws the error again after recording it, so
\* the promise of the start is rejected once the finaliser has run.
Fail_Rethrowing(w, p, kind, msg) ==
    [Finalise(Catch(w, p, kind, msg), p) EXCEPT !.st[p].pc = "rejected"]

\* A rejection anywhere in the chain: .catch, then .finally; the promise the
\* start returned is fulfilled.
Fail(w, p, kind, msg) == Finalise(Catch(w, p, kind, msg), p)

\* Variant: the record is left as the last progress update sent it.
MarkDone_Unmarked(w, p) == w

\* The last .then of the meshing and of the post-processing chain.
MarkDone(w, p) ==
    LET s == w.st[p]
    IN  IF s.cmd = STUDY_STEP_MESHING
        THEN [w EXCEPT !.st[p].rec = BG_TASK_STATUS_DONE, !.st[p].label = "done"]
        ELSE IF s.result = BG_TASK_STATUS_RUNNING
             THEN [w EXCEPT !.st[p].result = BG_TASK_STATUS_DONE]
             ELSE w

-----------------------------------------------------------------------------
(* execute(): the argument builder and the spawn.                          *)

\* Programs whose output a handler scans for a failure pattern
\* (REGEXP_SIMULATION_ERROR, /IndexError:/).
ScannedPrograms == {"simulation", "emiCalc"}

\* The outcomes of the pre-spawn checks of an operation: "ok", or "config"
\* for a ConfigurationError.  rm and 7z x carry no typed argument; every
\* other argv names the study directory with type d, and files or
\* directories that the disk may or may not hold.
ArgChecks(w, p, o) ==
    IF o.op \in {"rm", "uncompress"} THEN {"ok"}
    ELSE IF w.ws[w.st[p].nodeRef] = "absent" THEN {"config"}
    ELSE IF o.op = "compress" /\ o.arg # STUDY_STEP_POSTPROC THEN {"ok"}
    ELSE {"ok", "config"}

\* The name an operation's child is spawned under.
ProgramOf(o) ==
    CASE o.op = "rm" -> "rm"
      [] o.op \in {"compress", "uncompress"} -> "7z"
      [] OTHER -> o.arg

\* spawn() succeeded: the Study object holds the live child.
Spawned(w, p, i) ==
    LET s == w.st[p]
        o == OpsOf(s.cmd)[i]
    IN  Emit([w EXCEPT !.st[p].pc = "await", !.st[p].at = i,
                       !.st[p].child = "alive",
                       !.st[p].trail = IF o.op = "execute" THEN Append(@, o.arg) ELSE @],
             Ev("spawn", p, TaskOfStudy(s), "-", ProgramOf(o), "-"))

\* spawn() failed: the 'error' event rejects with code -127; the Study object
\* holds a child without a pid.
SpawnFailed(w, p) ==
    Fail([w EXCEPT !.st[p].child = "dead"], p, "result", "spawn error")

\* A pre-spawn check throws ConfigurationError( val+" not found" ): the chain
\* goes to its .catch with an Error.
ConfigurationError(w, p, o) ==
    Fail(Emit(w, Ev("error", p, TaskOfStudy(w.st[p]), "-", ProgramOf(o),
                    "ConfigurationError")),
         p, "Error", "not found")

Execute(w, p, i) ==
    LET o == OpsOf(w.st[p].cmd)[i]
    IN  UNION { IF c = "config"
                THEN {ConfigurationError(w, p, o)}
                ELSE {Spawned(w, p, i), SpawnFailed(w, p)}
              : c \in ArgChecks(w, p, o) }

\* A repository call, a download or an extraction is under way.
Pending(w, p, i) ==
    LET s == w.st[p]
        o == OpsOf(s.cmd)[i]
        w1 == [w EXCEPT !.st[p].pc = "await", !.st[p].at = i]
    IN  CASE o.op = "update" -> UpdateTask(w1, p, o.arg)
          [] o.op = "claim" -> Emit(w1, Ev("claim", p, TaskOfStudy(s), "-", "-", "-"))
          [] OTHER -> Emit([w1 EXCEPT !.st[p].trail =
                                  IF o.op = "getFolder" THEN @ ELSE Append(@, o.op)],
                           Ev(o.op, p, TaskOfStudy(s), "-", o.arg, "-"))

\* Run the chain of pipeline p from operation i on, up to the next
\* asynchronous operation or through the finaliser.
RECURSIVE Begin(_, _, _)
Begin(w, p, i) ==
    LET ops == OpsOf(w.st[p].cmd)
    IN  IF i > Len(ops) THEN {Finalise(w, p)}
        ELSE CASE ops[i].op = "setup" -> Begin(Setup(w, p), p, i + 1)
               [] ops[i].op = "markDone" -> Begin(MarkDone(w, p), p, i + 1)
               [] ops[i].op = "rm" ->
                    \* cleanup() returns null when the directory does not exist
                    IF w.ws[w.st[p].nodeRef] = "absent"
                    THEN Begin(w, p, i + 1)
                    ELSE Execute(w, p, i)
               [] ops[i].op \in ChildOps -> Execute(w, p, i)
               [] OTHER -> {Pending(w, p, i)}

\* The step moves the program to world w.
Becomes(w) ==
    /\ refs' = refs
    /\ study' = w.st
    /\ studies' = w.reg
    /\ ws' = w.ws
    /\ crashed' = w.crashed
    /\ out' = w.ev
    /\ client' = client
    /\ exec' = exec

PendingOp(p) == OpsOf(study[p].cmd)[study[p].at]

Awaits(p, kinds) ==
    /\ ~crashed
    /\ study[p].pc = "await"
    /\ PendingOp(p).op \in kinds

-----------------------------------------------------------------------------
(* The dispatcher: parseMessage. *)

\* A start-* message arrives: a Study object is created and the 2000 ms
\* timer is armed.  Study objects are numbered in order of arrival.
Receive(p, cmd, nodeRef, simNodeRef) ==
    /\ ~crashed
    /\ study[p].pc = "idle"
    /\ \A q \in Pipes : q < p => study[q].pc # "idle"
    /\ study' = [study EXCEPT ![p] = [NewStudy EXCEPT !.cmd = cmd, !.nodeRef = nodeRef,
                     !.simNodeRef = IF cmd = STUDY_STEP_SIMULATION THEN simNodeRef ELSE "-",
                     !.pc = "delay"]]
    /\ out' = << >>
    /\ UNCHANGED <<refs, studies, ws, crashed, client, exec>>

\* The messages parseMessage has nothing to dispatch for: text that is not
\* JSON (JSON.parse throws), a message whose nodeRef the Study constructor
\* cannot use (it throws a TypeError), a cmd the switch has no case for.
Unusable == {"not JSON", "no nodeRef", "unknown cmd"}

\* Variant: the exception leaves parseMessage.
Discarded_Escaped(w, kind) ==
    [Emit(w, Ev("message", NoStudy, <<"-", "-">>, "-", "-", kind)) EXCEPT !.crashed = TRUE]

\* The catch of parseMessage logs what was thrown; an unknown cmd falls
\* through the switch.
Discarded(w, kind) ==
    LET w1 == Emit(w, Ev("message", NoStudy, <<"-", "-">>, "-", "-", kind))
    IN  IF kind = "unknown cmd" THEN w1
        ELSE Emit(w1, Ev("log", NoStudy, <<"-", "-">>, "-", "-", "exception"))

Discard(kind) ==
    /\ ~crashed
    /\ Becomes(Discarded(Here, kind))

\* Timers of equal delay fire in the order they were armed.
TimerDue(p) ==
    /\ ~crashed
    /\ study[p].pc = "delay"
    /\ \A q \in Pipes : q < p => study[q].pc # "delay"

\* "Study already under processing"
Rejected(w, p) ==
    Emit([w EXCEPT !.st[p].pc = "rejected"],
         Ev("error", p, TaskOfStudy(w.st[p]), "-", "-", "already-processing"))

-----------------------------------------------------------------------------
(* The start operations. *)

StartMeshing(p) ==
    /\ TimerDue(p)
    /\ study[p].cmd = STUDY_STEP_MESHING
    /\ IF StudyCacheExists(studies, study[p].nodeRef)
       THEN Becomes(Rejected(Here, p))
       ELSE \E w \in Begin(Here, p, 1) : Becomes(w)

StartSimulation(p) ==
    /\ TimerDue(p)
    /\ study[p].cmd = STUDY_STEP_SIMULATION
    /\ IF StudyCacheExists(studies, study[p].nodeRef)
       THEN Becomes(Rejected(Here, p))
       ELSE \E w \in Begin([Here EXCEPT !.st[p].result = BG_TASK_STATUS_RUNNING,
                                        !.st[p].label = "null",
                                        !.st[p].stderr = ""], p, 1) : Becomes(w)

Postproc(p) ==
    /\ TimerDue(p)
    /\ study[p].cmd = STUDY_STEP_POSTPROC
    /\ IF StudyCacheExists(studies, study[p].nodeRef)
       THEN Becomes(Rejected(Here, p))
       ELSE \E w \in Begin([Here EXCEPT !.st[p].result = BG_TASK_STATUS_RUNNING,
                                        !.st[p].label = "undefined",
                                        !.st[p].stderr = "undefined"], p, 1) : Becomes(w)

\* Variant: any status the repository returns is taken as a grant.
ClaimAccepted_AnyStatus(status) == status \in TaskStatus

\* The check every start makes on the status a claim returned.
ClaimAccepted(status) == status = BG_TASK_STATUS_RUNNING

\* The first .then of each chain, on the answer `a` of the claim call.
\* startMeshing stores the record before it checks the status.
Claimed(w, p, a) ==
    LET s == w.st[p]
        w1 == IF s.cmd = STUDY_STEP_MESHING THEN [w EXCEPT !.st[p].rec = a] ELSE w
    IN  IF ~ClaimAccepted(a)
        THEN {Fail(w1, p, "Error", "Invalid status")}
        ELSE Begin([w1 EXCEPT !.st[p].rec = a,
                              !.st[p].step = s.cmd,
                              !.reg = StudyCacheRegister(w.reg, s.nodeRef, p)],
                   p, s.at + 1)

ClaimAnswer(p, a) ==
    /\ Awaits(p, {"claim"})
    /\ LET w0 == Emit([Here EXCEPT !.st[p].claimed = (a = BG_TASK_STATUS_RUNNING)],
                      Ev("answer", p, TaskOfStudy(study[p]), a, "-", "-"))
       IN  IF a = "error"
           THEN Becomes(Fail(w0, p, "Error", "repository error"))
           ELSE \E w \in Claimed(w0, p, a) : Becomes(w)

-----------------------------------------------------------------------------
(* The completion of the asynchronous operations of a chain. *)

\* Variant: the chain passes over the operation that follows.
Continue_Skipping(w, p) == Begin(w, p, w.st[p].at + 2)

\* The pending operation has completed: the chain goes on with the next.
Continue(w, p) == Begin(w, p, w.st[p].at + 1)

UpdateAnswer(p, ok) ==
    /\ Awaits(p, {"update"})
    /\ IF ok THEN \E w \in Continue(Here, p) : Becomes(w)
       ELSE Becomes(Fail(Here, p, "Error", "repository error"))

GetFolderAnswer(p, ok) ==
    /\ Awaits(p, {"getFolder"})
    /\ IF ok THEN \E w \in Continue(Here, p) : Becomes(w)
       ELSE Becomes(Fail(Here, p, "Error", "folder not found"))

DownloadDone(p, ok) ==
    /\ Awaits(p, {"download"})
    /\ IF ok THEN \E w \in Continue(Here, p) : Becomes(w)
       ELSE Becomes(Fail(Here, p, "Error", "Download failed"))

\* extract(): every file entry is written into the workspace; reading the
\* archive may fail.  When the directory does not exist, the write stream of
\* the first file entry emits an 'error' nobody listens to, which ends the
\* worker; an archive without file entries writes nothing.  The read stream
\* of the archive has no 'error' listener either: when the download resolved
\* without writing the file (waitUntilReady on a session that is neither
\* pending nor DONE) and no earlier archive is there, opening it ends the
\* worker too.
ExtractDone(p, outcome) ==
    /\ Awaits(p, {"extract"})
    /\ LET n == study[p].nodeRef
       IN  CASE outcome = "fail" -> Becomes(Fail(Here, p, "Error", "Extraction failed"))
             [] outcome = "crash" -> Becomes([Here EXCEPT !.crashed = TRUE])
             [] outcome = "files" -> /\ ws[n] # "absent"
                                     /\ \E w \in Continue([Here EXCEPT !.ws[n] = "filled"], p) :
                                           Becomes(w)
             [] outcome = "nofiles" -> \E w \in Continue(Here, p) : Becomes(w)

UploadDone(p, ok) ==
    /\ Awaits(p, {"upload"})
    /\ IF ok THEN \E w \in Continue(Here, p) : Becomes(w)
       ELSE Becomes(Fail(Here, p, "Error", "upload failed"))

\* What the disk holds after a child ended with code 0.
AfterChild(dir, o) ==
    CASE o.op = "rm" -> "absent"
      [] o.op = "uncompress" -> "filled"
      [] o.op = "execute" -> (IF dir = "absent" THEN dir ELSE "filled")
      [] OTHER -> dir

\* Variant: the output of the simulation is not scanned.
ScanStatus_Ignored(mark) == BG_TASK_STATUS_DONE

\* Variant: the scan leaves the status of the record as the claim returned it.
ScanStatus_Unset(mark) == BG_TASK_STATUS_RUNNING

\* self.sim.status after the scan of the simulation's output against
\* REGEXP_SIMULATION_ERROR.
ScanStatus(mark) ==
    IF mark = "fatal" THEN BG_TASK_STATUS_FAILED ELSE BG_TASK_STATUS_DONE

\* Variant: the stderr of emiCalc is not looked at.
EmiCalcFailed_Ignored(o, mark) == FALSE

\* result.stderr.match( /IndexError:/ ) after emiCalc
EmiCalcFailed(o, mark) == o.arg = "emiCalc" /\ mark = "fatal"

\* The .then that follows execute() in each chain; mark is "fatal" when the
\* output matches the pattern the handler scans for.
PostExecute(w, p, o, mark) ==
    LET s == w.st[p]
    IN  IF o.op # "execute" THEN {w}
        ELSE IF s.cmd = STUDY_STEP_MESHING
        THEN {[w EXCEPT !.st[p].stderr = "child"]}
        ELSE IF s.cmd = STUDY_STEP_SIMULATION
        THEN {[w EXCEPT !.st[p].result = BG_TASK_STATUS_RUNNING,
                        !.st[p].label = "undefined",
                        !.st[p].stderr = "child",
                        !.st[p].rec = ScanStatus(mark)]}
        ELSE LET w1 == [w EXCEPT !.st[p].result = BG_TASK_STATUS_RUNNING,
                                 !.st[p].label = "undefined",
                                 !.st[p].stderr = "child"]
             IN  IF EmiCalcFailed(o, mark)
                 THEN {Fail(w1, p, "Error", "emicalc failed.")}
                 ELSE {w1}

Marks(o) == IF o.op = "execute" /\ o.arg \in ScannedPrograms
            THEN {"clean", "fatal"} ELSE {"clean"}

\* What the 'close' event of a child reports: the signal that ended it, or
\* its exit code.
ExitOf(child, code) ==
    IF child = "killed" THEN "signal" ELSE IF code = 0 THEN "0" ELSE "nonzero"

\* The 'close' event of the child of pipeline p: code 0, a non-zero code,
\* or the signal an abort sent.
ChildClose(p, code, mark) ==
    /\ Awaits(p, ChildOps)
    /\ study[p].child \in {"alive", "killed"}
    /\ mark \in Marks(PendingOp(p))
    /\ LET o == PendingOp(p)
           n == study[p].nodeRef
           w0 == Emit([Here EXCEPT !.st[p].child = "dead"],
                      Ev("close", p, TaskOfStudy(study[p]), ExitOf(study[p].child, code),
                         ProgramOf(o), mark))
       IN  IF study[p].child = "killed"
           THEN Becomes(Fail(w0, p, "result", "Terminated by signal"))
           ELSE IF code # 0
           THEN Becomes(Fail(w0, p, "result", "Terminated with status code"))
           ELSE \E w1 \in PostExecute([w0 EXCEPT !.ws[n] = AfterChild(@, o)], p, o, mark) :
                  IF w1.st[p].pc = "done" THEN Becomes(w1)
                  ELSE \E w2 \in Continue(w1, p) : Becomes(w2)

\* The answer to the update the finaliser sent: a status that differs from
\* the one sent, or a rejected request, is logged.
FinalUpdateAnswer(p, a) ==
    /\ ~crashed
    /\ study[p].pc = "done"
    /\ study[p].finals > 0
    /\ study' = [study EXCEPT ![p].pc = "closed"]
    /\ out' = IF a # study[p].final
              THEN << Ev("log", p, TaskOfStudy(study[p]), "-", "-", "Invalid status") >>
              ELSE << >>
    /\ UNCHANGED <<refs, studies, ws, crashed, client, exec>>

-----------------------------------------------------------------------------
(* The abort operations. *)

\* Variant: the abort returns without signalling.
Kill_NoSignal(w, s) == {w}

\* Variant: the abort ends the pipeline itself.
Kill_Cancelling(w, s) == {Fail(w, s, "Error", "user aborted")}

\* process.kill( -s.child.pid ) on the registered Study object s.  Without a
\* child the expression throws; the signal reaches a live child's group.
\* this.child is never reset, so between two programs it is a child that has
\* exited: its group is gone and the call throws ESRCH, or the id has been
\* given to another group, which then gets the signal.
Kill(w, s) ==
    LET c == w.st[s].child
        t == TaskOfStudy(w.st[s])
    IN  CASE c = "none" -> {Emit(w, Ev("error", s, t, "-", "-", "TypeError"))}
          [] c = "dead" -> {Emit(w, Ev("error", s, t, "-", "-", "ESRCH")),
                            Emit(w, Ev("kill", s, t, c, "-", "-"))}
          [] OTHER -> {Emit([w EXCEPT !.st[s].child = "killed"],
                            Ev("kill", s, t, c, "-", "-"))}

\* "Study is not running the ... step"
WrongStep(w, s) ==
    Emit(w, Ev("error", s, TaskOfStudy(w.st[s]), "-", "-", "wrong-step"))

\* Variant: the abort leaves the update to a later turn.
AbortUpdate_Deferred(w, task, stage, stderr) == w

\* The update an abort sends for a task no pipeline of this process holds.
AbortUpdate(w, task, stage, stderr) ==
    Emit(w, Ev("update", NoStudy, task, BG_TASK_STATUS_FAILED, stage, stderr))

\* Variant: the step of the registered execution is not compared.
StepIs_Unchecked(s, stg) == s.step # "null"

\* Whether the registered execution runs the step the abort is for.
StepIs(s, stg) == s.step = stg

\* The abort-* message the step handles, and the Study object the registry
\* holds for its study.
Abort(stg, nodeRef, simNodeRef) ==
    Emit(Here, Ev("abort", StudyCacheGet(studies, nodeRef), <<stg, nodeRef>>, "-",
                  simNodeRef, "-"))

AbortMeshing(nodeRef) ==
    /\ ~crashed
    /\ LET s == StudyCacheGet(studies, nodeRef)
           w == Abort(STUDY_STEP_MESHING, nodeRef, "-")
       IN  IF s = NoStudy
           THEN Becomes(AbortUpdate(w, <<STUDY_STEP_MESHING, nodeRef>>,
                                    "undefined", "undefined"))
           ELSE IF ~StepIs(study[s], STUDY_STEP_MESHING)
           THEN Becomes(WrongStep(w, s))
           ELSE \E k \in Kill(w, s) : Becomes(k)

\* Variant: the simulation the abort names is not compared.
OtherSimulation_Unchecked(s, simNodeRef) == FALSE

\* s.sim.nodeRef !== simNodeRef: the registered execution runs another
\* simulation of the study than the one the abort names.
OtherSimulation(s, simNodeRef) == s.simNodeRef # simNodeRef

AbortSimulation(nodeRef, simNodeRef) ==
    /\ ~crashed
    /\ LET s == StudyCacheGet(studies, nodeRef)
           w == Abort(STUDY_STEP_SIMULATION, nodeRef, simNodeRef)
       IN  IF s = NoStudy
           THEN Becomes(AbortUpdate(w, <<STUDY_STEP_SIMULATION, simNodeRef>>,
                                    "null", "user aborted"))
           ELSE IF ~StepIs(study[s], STUDY_STEP_SIMULATION)
           THEN Becomes(WrongStep(w, s))
           ELSE IF OtherSimulation(study[s], simNodeRef)
           THEN Becomes(AbortUpdate(w, <<STUDY_STEP_SIMULATION, simNodeRef>>,
                                    "null", "user aborted"))
           ELSE \E k \in Kill(w, s) : Becomes(k)

AbortPostproc(nodeRef) ==
    /\ ~crashed
    /\ LET s == StudyCacheGet(studies, nodeRef)
           w == Abort(STUDY_STEP_POSTPROC, nodeRef, "-")
       IN  IF s = NoStudy
           THEN Becomes(AbortUpdate(w, <<STUDY_STEP_POSTPROC, nodeRef>>,
                                    "null", "user aborted"))
           ELSE IF ~StepIs(study[s], STUDY_STEP_POSTPROC)
           THEN Becomes(WrongStep(w, s))
           ELSE \E k \in Kill(w, s) : Becomes(k)

-----------------------------------------------------------------------------

Next ==
    \/ \E p \in Pipes, g \in Stages, n \in refs, sn \in SimRefs : Receive(p, g, n, sn)
    \/ \E p \in Pipes : StartMeshing(p)
    \/ \E p \in Pipes : StartSimulation(p)
    \/ \E p \in Pipes : Postproc(p)
    \/ \E p \in Pipes, a \in ClaimAnswers : ClaimAnswer(p, a)
    \/ \E p \in Pipes, ok \in BOOLEAN : UpdateAnswer(p, ok)
    \/ \E p \in Pipes, ok \in BOOLEAN : GetFolderAnswer(p, ok)
    \/ \E p \in Pipes, ok \in BOOLEAN : DownloadDone(p, ok)
    \/ \E p \in Pipes, outcome \in {"files", "nofiles", "fail", "crash"} :
          ExtractDone(p, outcome)
    \/ \E p \in Pipes, ok \in BOOLEAN : UploadDone(p, ok)
    \/ \E p \in Pipes, code \in {0, 1}, mark \in {"clean", "fatal"} : ChildClose(p, code, mark)
    \/ \E p \in Pipes, a \in ClaimAnswers : FinalUpdateAnswer(p, a)
    \/ \E kind \in Unusable : Discard(kind)
    \/ \E n \in refs : AbortMeshing(n)
    \/ \E n \in refs, sn \in SimRefs : AbortSimulation(n, sn)
    \/ \E n \in refs : AbortPostproc(n)

Spec == Init /\ [][Next]_vars

\* The operating system ends a child whose process group got the signal and
\* delivers its 'close' event.
KilledClose(p) ==
    /\ study[p].child = "killed"
    /\ \E code \in {0, 1}, mark \in {"clean", "fatal"} : ChildClose(p, code, mark)

-----------------------------------------------------------------------------
(* Vocabulary of the properties. *)

\* Pipeline p is executing: its start passed the registry check (and sent its
\* claim) and its finaliser has not run.
Executing(p) == study[p].pc = "await"

\* Pipeline p has terminated: its finaliser has run.
Terminated(p) == study[p].pc \in {"done", "closed"}

ExecutingOn(nodeRef) == {p \in Pipes : Executing(p) /\ study[p].nodeRef = nodeRef}

\* The events of a kind in what the last step sent.
Sent(type) == {i \in DOMAIN out : out[i].type = type}

SentBy(type, p) == {i \in Sent(type) : out[i].pipe = p}

\* This step is the start of p: its timer fired.
Starts(p) == study[p].pc = "delay" /\ study'[p].pc # "delay"

\* This step runs the finaliser of p.
Ends(p) == study[p].pc = "await" /\ study'[p].pc = "done"

\* The pipelines that called the claim endpoint for a task, and those the
\* repository answered RUNNING.
ClaimCalls(task) ==
    {p \in Pipes : (Executing(p) \/ Terminated(p)) /\ TaskOfStudy(study[p]) = task}

Granted(task) == {p \in ClaimCalls(task) : study[p].claimed}

-----------------------------------------------------------------------------
(* C1: a start issued while another pipeline of the same study is executing *)
(* fails with already-processing and calls no claim endpoint.               *)
C1_StartWhileExecutingRejected ==
    [][\A p \in Pipes :
         (Starts(p) /\ ExecutingOn(study[p].nodeRef) # {})
            => /\ study'[p].pc = "rejected"
               /\ Sent("claim")' = {}]_vars

(* C2: at most one pipeline per study reference is active (past its        *)
(* registry check, finaliser not yet run).                                  *)
C2_OneActivePerStudy ==
    \A n \in NodeRefs : Cardinality(ExecutingOn(n)) <= 1

(* C3: when the repository grants each task at most once, a start delivered *)
(* twice leaves one claim call and one terminal update per task, and a      *)
(* registry entry is removed only by the finaliser of the pipeline it holds.*)
C3_DuplicateStartHarmless ==
    [][(\A t \in Tasks : Cardinality(Granted(t)') <= 1)
         => /\ \A t \in Tasks :
                 /\ Cardinality(ClaimCalls(t)') <= 1
                 /\ Cardinality({p \in ClaimCalls(t)' : study'[p].finals > 0}) <= 1
            /\ \A n \in NodeRefs :
                 (studies[n] # NoStudy /\ studies'[n] # studies[n])
                    => Ends(studies[n])]_vars

(* C4: the step that terminates a pipeline, after success or after a        *)
(* failure, leaves its study reference absent from the registry.            *)
C4_AbsentAfterTermination ==
    [][\A p \in Pipes :
         Ends(p) => ~StudyCacheExists(studies', study[p].nodeRef)]_vars

\* Some pipeline has just ended FAILED after its claim was granted, another
\* (or the same message slot later) has ended DONE.
C4_Witness ==
    \E p \in Pipes :
       /\ study[p].pc = "done" /\ study[p].claimed
       /\ study[p].final = BG_TASK_STATUS_FAILED
       /\ SentBy("update", p) # {}
       /\ ~StudyCacheExists(studies, study[p].nodeRef)

(* C5: a study reference is in the registry iff a pipeline of that study is *)
(* executing; a pipeline counts as executing a stage from the moment its    *)
(* claim is granted to its finaliser.                                       *)
C5_RegisteredIffExecuting ==
    \A n \in NodeRefs :
       StudyCacheExists(studies, n) <=> (\E p \in ExecutingOn(n) : study[p].claimed)

-----------------------------------------------------------------------------
\* The last step handled an abort-* message.
Aborted == out # << >> /\ out[1].type = "abort"

\* The abort message of the last step is for the stage, the study and (for a
\* simulation) the simulation that pipeline p runs.
AbortMatches(e, s) ==
    /\ e.task = <<s.cmd, s.nodeRef>>
    /\ s.cmd = STUDY_STEP_SIMULATION => e.stage = s.simNodeRef

TerminalStatus == {BG_TASK_STATUS_DONE, BG_TASK_STATUS_FAILED}

(* C6 as stated: every pipeline run ends with exactly one update, sent by   *)
(* the step that ends it, carrying DONE or FAILED.                          *)
C6_ExactlyOneFinalUpdate ==
    [][\A p \in Pipes :
         Ends(p) => /\ Cardinality(SentBy("update", p)') = 1
                    /\ \A i \in SentBy("update", p)' : out'[i].status \in TerminalStatus]_vars

(* C6 amended: a run whose claim was granted ends with exactly one update,  *)
(* the last thing its last step sends, carrying DONE or FAILED; any other   *)
(* run ends with at most one such update; after its end a pipeline sends    *)
(* no update.                                                               *)
C6_OneFinalUpdateWhenClaimed ==
    [][\A p \in Pipes :
         /\ Ends(p) =>
              /\ study'[p].claimed => Cardinality(SentBy("update", p)') = 1
              /\ Cardinality(SentBy("update", p)') <= 1
              /\ Cardinality(SentBy("update", p)') = study'[p].finals
              /\ \A i \in SentBy("update", p)' :
                    /\ i = Len(out')
                    /\ out'[i].status \in TerminalStatus
                    /\ out'[i].status = study'[p].final
         /\ Terminated(p) => SentBy("update", p)' = {}]_vars

\* A pipeline whose claim was granted has just ended DONE and sent its update.
C6_Witness ==
    \E p \in Pipes :
       /\ study[p].pc = "done" /\ study[p].claimed
       /\ study[p].final = BG_TASK_STATUS_DONE
       /\ SentBy("update", p) = {Len(out)}

(* C7: a pipeline whose claim was not answered RUNNING has spawned no        *)
(* external program.                                                        *)
C7_NoSpawnWithoutRunningClaim ==
    \A p \in Pipes :
       ~study[p].claimed => /\ study[p].child = "none"
                            /\ SentBy("spawn", p) = {}

\* A claim has just been answered with a status other than RUNNING and the
\* pipeline has ended without a child.
C7_Witness ==
    \E p \in Pipes :
       /\ SentBy("answer", p) = {1}
       /\ out[1].status \in TaskStatus \ {BG_TASK_STATUS_RUNNING}
       /\ study[p].pc = "done"
       /\ study[p].child = "none"

AbortsRegistered(p) ==
    /\ Aborted'
    /\ out'[1].pipe = p
    /\ AbortMatches(out'[1], study[p])
    /\ StepIs(study[p], out'[1].task[1])

C9_AbortUnregisteredSendsUserAborted ==
    (Aborted /\ out[1].pipe = NoStudy)
       => /\ Len(out) = 2
          /\ out[2].type = "update"
          /\ out[2].status = BG_TASK_STATUS_FAILED
          /\ out[2].stderr = "user aborted"
          /\ ~StudyCacheExists(studies, out[1].task[2])

(* C10: an abort for a study whose registered execution runs another stage  *)
(* fails with wrong-step, sends neither signal nor update and changes       *)
(* neither the registry nor any pipeline.                                   *)
C10_AbortWrongStep ==
    [][\A p \in Pipes :
         (Aborted' /\ out'[1].pipe = p /\ study[p].step # out'[1].task[1])
            => /\ Len(out') = 2
               /\ out'[2].type = "error" /\ out'[2].stderr = "wrong-step"
               /\ Sent("kill")' = {} /\ Sent("update")' = {}
               /\ UNCHANGED <<study, studies, ws, crashed>>]_vars

\* An abort has just been refused with wrong-step while the pipeline it met
\* has a live child.
C10_Witness ==
    /\ Aborted
    /\ \E p \in Pipes :
          /\ out[1].pipe = p
          /\ study[p].step # out[1].task[1]
          /\ study[p].child = "alive"
          /\ out[2].stderr = "wrong-step"

-----------------------------------------------------------------------------
\* Pipeline p has the child of the program `prg` alive.
Runs(p, prg) ==
    /\ Executing(p)
    /\ study[p].child = "alive"
    /\ PendingOp(p) = Op("execute", prg)

(* C11: an abort-simulation handled while the simulation program of the     *)
(* simulation it names is alive sends no update of its own and signals the  *)
(* program; the pipeline then ends with its one finaliser update, FAILED.   *)
C11_AbortAfterSpawnSendsNoUpdate ==
    [][\A p \in Pipes :
         /\ (/\ Aborted'
             /\ AbortMatches(out'[1], study[p])
             /\ study[p].cmd = STUDY_STEP_SIMULATION
             /\ Runs(p, "simulation"))
              => /\ Sent("update")' = {}
                 /\ SentBy("kill", p)' # {}
         /\ (study[p].cmd = STUDY_STEP_SIMULATION /\ study[p].child = "killed" /\ Ends(p))
              => /\ Cardinality(SentBy("update", p)') = 1
                 /\ study'[p].final = BG_TASK_STATUS_FAILED]_vars

(* C12: the step that ends a pipeline sends a final update if and only if   *)
(* the claim call of the pipeline was answered RUNNING; a pipeline whose    *)
(* claim failed or was answered otherwise sends no update at all.           *)
C12_FinalUpdateIffClaimed ==
    [][\A p \in Pipes :
         /\ Ends(p) => (SentBy("update", p)' # {} <=> study'[p].claimed)
         /\ ~study'[p].claimed => SentBy("update", p)' = {}]_vars

\* The child of pipeline p has closed in the last step: the events of it.
Closed(p, prg, exit) ==
    {i \in SentBy("close", p) : out[i].stage = prg /\ out[i].status = exit}

(* C13: when the simulation program exits with code 0 and its output        *)
(* matches the failure pattern, the pipeline goes on to the compress step   *)
(* and ends FAILED; when the output does not match and the compression      *)
(* exits with code 0, it ends DONE.                                         *)
C13_FailurePatternStillCompresses ==
    [][\A p \in Pipes : study[p].cmd = STUDY_STEP_SIMULATION =>
         /\ (\E i \in Closed(p, "simulation", "0")' : out'[i].stderr = "fatal")
              => /\ Executing(p)'
                 /\ PendingOp(p)' = Op("update", "compressing")
                 /\ study'[p].rec = BG_TASK_STATUS_FAILED
         /\ (Awaits(p, {"update"}) /\ PendingOp(p) = Op("update", "compressing")
                                   /\ Executing(p)' /\ study'[p].at # study[p].at)
              => /\ PendingOp(p)' = Op("compress", STUDY_STEP_SIMULATION)
                 /\ \E i \in SentBy("spawn", p)' : out'[i].stage = "7z"
                 /\ study'[p].rec = study[p].rec
         /\ (Ends(p) /\ study[p].rec = BG_TASK_STATUS_FAILED)
              => study'[p].final = BG_TASK_STATUS_FAILED
         /\ (Ends(p) /\ study[p].rec = BG_TASK_STATUS_DONE /\ Closed(p, "7z", "0")' # {})
              => study'[p].final = BG_TASK_STATUS_DONE]_vars

\* The simulation matched the failure pattern, the compression has just
\* exited with code 0 and the finaliser has sent FAILED.
C13_Witness ==
    \E p \in Pipes :
       /\ study[p].cmd = STUDY_STEP_SIMULATION
       /\ Closed(p, "7z", "0") # {}
       /\ study[p].pc = "done"
       /\ study[p].final = BG_TASK_STATUS_FAILED
       /\ \E i \in SentBy("update", p) : out[i].status = BG_TASK_STATUS_FAILED

-----------------------------------------------------------------------------
\* The calls of a chain that complete without yielding: setup, the final
\* marking, and cleanup when there is no directory.
Synchronous == {"setup", "markDone", "rm"}

\* The child of pipeline p is running (signalled or not).
ChildInFlight(s) == s.child \in {"alive", "killed"}

(* C14: the operations of a pipeline run in chain order, one at a time: the *)
(* pending operation only moves forward, over synchronous calls only; a     *)
(* step starts at most one child and sends at most one in-pipeline update,  *)
(* and only after the close of the child that was running; a child is in    *)
(* flight exactly while the pending operation is its own.                   *)
C14_StepsInDeclaredOrder ==
    [][\A p \in Pipes :
         LET s == study[p]
             t == study'[p]
             began == SentBy("spawn", p)' \cup SentBy("update", p)'
         IN  /\ Cardinality(SentBy("spawn", p)') <= 1
             /\ Executing(p)' => Cardinality(SentBy("update", p)') <= 1
             /\ Executing(p)' => Cardinality(began) <= 1
             /\ (Executing(p) /\ ChildInFlight(s) /\ began # {})
                  => \E c \in SentBy("close", p)' : \A i \in began : c < i
             /\ (Executing(p)' /\ t.at # s.at)
                  => /\ t.at > s.at
                     /\ \A j \in (s.at + 1)..(t.at - 1) : OpsOf(t.cmd)[j].op \in Synchronous
                     /\ ~ChildInFlight(s) \/ SentBy("close", p)' # {}
             /\ Executing(p)' => (ChildInFlight(t) <=> PendingOp(p)'.op \in ChildOps)]_vars

\* The close of the meshing program has just been followed by the update
\* that precedes the compression.
C14_Witness ==
    \E p \in Pipes :
       /\ Executing(p)
       /\ PendingOp(p) = Op("update", "compress")
       /\ Closed(p, "preproc", "0") # {}
       /\ \E i \in SentBy("update", p) : out[i].stage = "compress"
       /\ ~ChildInFlight(study[p])

-----------------------------------------------------------------------------
\* What a meshing run does in which every step succeeds: the labels it
\* reports, the transfers and the program between them.
MeshingTrail ==
    << "download input folder", "download", "extraction", "extract",
       "meshing", "preproc", "compress" >>

IsPrefix(a, b) == Len(a) <= Len(b) /\ \A i \in 1..Len(a) : a[i] = b[i]

(* C15: a meshing pipeline reports "download input folder", "extraction",   *)
(* "meshing", "compress" in this order, each with status RUNNING, with the  *)
(* download before "extraction" and the extraction and then preproc after   *)
(* it; the run in which every step succeeded, the compression included,     *)
(* has done all of it and ends with one update, status DONE, stage "done".  *)
C15_MeshingStagesInOrder ==
    [][\A p \in Pipes : study[p].cmd = STUDY_STEP_MESHING =>
         /\ Executing(p)' =>
               /\ IsPrefix(study'[p].trail, MeshingTrail)
               /\ \A i \in SentBy("update", p)' :
                     /\ out'[i].status = BG_TASK_STATUS_RUNNING
                     /\ out'[i].stage = study'[p].trail[Len(study'[p].trail)]
         /\ (\E i \in SentBy("spawn", p)' : out'[i].stage = "preproc")
               => study'[p].trail = SubSeq(MeshingTrail, 1, 6)
         /\ (Ends(p) /\ Closed(p, "7z", "0")' # {})
               => /\ study[p].trail = MeshingTrail
                  /\ Cardinality(SentBy("update", p)') = 1
                  /\ \A i \in SentBy("update", p)' :
                        /\ out'[i].status = BG_TASK_STATUS_DONE
                        /\ out'[i].stage = "done"]_vars

\* A meshing pipeline has just ended on the code-0 close of the compression
\* and sent DONE.
C15_Witness ==
    \E p \in Pipes :
       /\ study[p].cmd = STUDY_STEP_MESHING
       /\ study[p].pc = "done"
       /\ Closed(p, "7z", "0") # {}
       /\ \E i \in SentBy("update", p) :
             out[i].status = BG_TASK_STATUS_DONE /\ out[i].stage = "done"

-----------------------------------------------------------------------------
\* The first operation of a chain that unpacks an archive into the
\* workspace, and the last workspace-preparation call before it.
FirstUnpack(ops) ==
    CHOOSE i \in DOMAIN ops :
       /\ ops[i].op \in {"extract", "uncompress"}
       /\ \A j \in 1..(i - 1) : ops[j].op \notin {"extract", "uncompress"}

LastPreparation(ops) ==
    CHOOSE i \in 1..FirstUnpack(ops) :
       /\ ops[i].op \in {"rm", "setup"}
       /\ \A j \in (i + 1)..FirstUnpack(ops) : ops[j].op \notin {"rm", "setup"}

\* Pipeline p has run its workspace preparation and not yet begun to unpack.
Prepared(p) ==
    /\ Executing(p)
    /\ study[p].at > LastPreparation(OpsOf(study[p].cmd))
    /\ study[p].at < FirstUnpack(OpsOf(study[p].cmd))

(* C16: between the workspace preparation of a pipeline and its first       *)
(* extract or uncompress step, the workspace directory of the study exists  *)
(* and is empty.                                                            *)
C16_WorkspaceEmptyAfterPreparation ==
    \A p \in Pipes : Prepared(p) => ws[study[p].nodeRef] = "empty"

-----------------------------------------------------------------------------
\* The pre-spawn validation of a program of pipeline p has failed in the
\* last step.
ValidationFailed(p) ==
    {i \in SentBy("error", p) : out[i].stderr = "ConfigurationError"}

(* C17: when the pre-spawn validation of an argument fails, the step spawns *)
(* no child, ends the pipeline and sends its one final update with status   *)
(* FAILED and the diagnostic as stderr; an ended pipeline starts nothing.   *)
C17_ValidationFailureEndsFailed ==
    [][\A p \in Pipes :
         /\ ValidationFailed(p)' # {}
              => /\ \A i \in ValidationFailed(p)' :
                       \A j \in SentBy("spawn", p)' : j < i
                 /\ ~ChildInFlight(study'[p])
                 /\ Ends(p)
                 /\ study'[p].final = BG_TASK_STATUS_FAILED
                 /\ Cardinality(SentBy("update", p)') = 1
                 /\ \A i \in SentBy("update", p)' :
                       /\ out'[i].status = BG_TASK_STATUS_FAILED
                       /\ out'[i].stderr = "not found"
         /\ Terminated(p)
              => /\ SentBy("spawn", p)' = {}
                 /\ study'[p].at = study[p].at]_vars

\* The validation of the arguments of probesMeanYear has just failed and the
\* pipeline has ended FAILED.
C17_Witness ==
    \E p \in Pipes :
       /\ \E i \in ValidationFailed(p) : out[i].stage = "probesMeanYear"
       /\ study[p].pc = "done"
       /\ study[p].final = BG_TASK_STATUS_FAILED
       /\ \E i \in SentBy("update", p) : out[i].stderr = "not found"

-----------------------------------------------------------------------------
(* The Alfresco client: the chunked upload and the download session, each   *)
(* followed from the call to the settlement of its promise.                 *)

\* use chunks of 8MB
CHUNK_SIZE == 8 * 1024 * 1024

\* The largest file uploaded, in chunks; the polls a session is followed for.
MaxChunks == 3
MaxPolls == 2

\* File sizes at and around the chunk boundaries.
FileSizes ==
    {k * CHUNK_SIZE + r : k \in 0..(MaxChunks - 1), r \in {0, 1, CHUNK_SIZE - 1}}
       \cup {MaxChunks * CHUNK_SIZE}

\* The statuses of a download session, one the API does not document, and
\* a request that fails.
DownloadStatuses == {"PENDING", "CANCELLED", "IN_PROGRESS", "DONE", "MAX_CONTENT_SIZE_EXCEEDED"}
SessionAnswers == DownloadStatuses \cup {"UNKNOWN", "error"}

ClientInit ==
    /\ refs = {}
    /\ study = [p \in Pipes |-> NewStudy]
    /\ studies = [n \in NodeRefs |-> NoStudy]
    /\ ws = [n \in NodeRefs |-> "absent"]
    /\ crashed = FALSE
    /\ out = << >>
    /\ exec = NoExec
    /\ client \in {[Call("upload", "open") EXCEPT !.fileSize = n] : n \in FileSizes}
                    \cup {Call("download", "post")}

Settled(c, outcome) == [c EXCEPT !.pc = "end", !.outcome = outcome]

ClientStep(c) ==
    /\ client' = c
    /\ UNCHANGED <<refs, study, studies, ws, crashed, out, exec>>

NumChunks(fileSize) ==
    (fileSize \div CHUNK_SIZE) + (IF fileSize % CHUNK_SIZE # 0 THEN 1 ELSE 0)

Min(a, b) == IF a < b THEN a ELSE b

\* upload(): the size of the file, the number of chunks, Fs.open, and the
\* request that creates the empty document.
Upload(ok) ==
    /\ client.call = "upload" /\ client.pc = "open"
    /\ ClientStep(IF ok
                  THEN [client EXCEPT !.pc = "create",
                                      !.numChunks = NumChunks(client.fileSize)]
                  ELSE Settled(client, "rejected"))

\* The answer of createDocument: the first uploadChunk( fd ) starts a read.
CreateDocument(ok) ==
    /\ client.call = "upload" /\ client.pc = "create"
    /\ ClientStep(IF ok THEN [client EXCEPT !.pc = "read"]
                  ELSE Settled(client, "rejected"))

\* uploadChunk: the callback of Fs.read sends what was read as one PUT.
UploadChunk(ok) ==
    /\ client.call = "upload" /\ client.pc = "read"
    /\ LET bytesRead == Min(CHUNK_SIZE, client.fileSize - client.pos)
           isLastChunk == client.counter >= client.numChunks
       IN  ClientStep(IF ok
                      THEN [client EXCEPT !.pc = "put",
                                          !.pos = @ + bytesRead,
                                          !.puts = Append(@, [bytes |-> bytesRead,
                                                              isLastChunk |-> isLastChunk])]
                      ELSE Settled(client, "rejected"))

\* The answer of the PUT: the next chunk, or the end of the upload.
PutAnswer(ok) ==
    /\ client.call = "upload" /\ client.pc = "put"
    /\ LET c == [client EXCEPT !.counter = @ + 1]
       IN  ClientStep(IF ~ok THEN Settled(client, "rejected")
                      ELSE IF client.puts[Len(client.puts)].isLastChunk
                      THEN Settled(c, "resolved")
                      ELSE [c EXCEPT !.pc = "read"])

\* Download.waitUntilReady on the status just stored: poll again after
\* POLLING_PERIOD, fetch the content, or `break` out of the switch, which
\* returns undefined to the chain.
WaitUntilReady(c) ==
    CASE c.status \in {"PENDING", "IN_PROGRESS"} -> [c EXCEPT !.pc = "poll"]
      [] c.status = "DONE" -> [c EXCEPT !.pc = "content"]
      [] OTHER -> Settled(c, "resolved")

\* The Download constructor: the answer to POST /downloads.
Download(a) ==
    /\ client.call = "download" /\ client.pc = "post"
    /\ ClientStep(IF a = "error" THEN Settled(client, "rejected")
                  ELSE WaitUntilReady([client EXCEPT !.status = a]))

\* The answer to a poll of the session.
Poll(a) ==
    /\ client.call = "download" /\ client.pc = "poll"
    /\ client.polls < MaxPolls
    /\ ClientStep(IF a = "error" THEN Settled(client, "rejected")
                  ELSE WaitUntilReady([client EXCEPT !.status = a, !.polls = @ + 1]))

\* The answer to GET .../content: the response is piped to the file.
Content(ok) ==
    /\ client.call = "download" /\ client.pc = "content"
    /\ ClientStep(IF ok THEN [client EXCEPT !.pc = "stream"]
                  ELSE Settled(client, "rejected"))

\* 'finish' or 'error' of the writer.
WriterFinish(ok) ==
    /\ client.call = "download" /\ client.pc = "stream"
    /\ ClientStep(IF ok THEN Settled([client EXCEPT !.written = TRUE], "resolved")
                  ELSE Settled(client, "rejected"))

ClientNext ==
    \/ \E ok \in BOOLEAN : Upload(ok)
    \/ \E ok \in BOOLEAN : CreateDocument(ok)
    \/ \E ok \in BOOLEAN : UploadChunk(ok)
    \/ \E ok \in BOOLEAN : PutAnswer(ok)
    \/ \E a \in SessionAnswers : Download(a)
    \/ \E a \in SessionAnswers : Poll(a)
    \/ \E ok \in BOOLEAN : Content(ok)
    \/ \E ok \in BOOLEAN : WriterFinish(ok)

ClientSpec == ClientInit /\ [][ClientNext]_vars

\* An upload that resolved, of a file of the given size.
Uploaded(size) ==
    /\ client.call = "upload"
    /\ client.outcome = "resolved"
    /\ client.fileSize = size

\* The PUT requests that carried isLastChunk=true.
LastChunks == {i \in DOMAIN client.puts : client.puts[i].isLastChunk}

(* C18: the upload of a file of N times the chunk size, N >= 1, issues      *)
(* exactly N PUT requests, and the Nth is the only one with isLastChunk.    *)
C18_ExactMultipleUploadsNChunks ==
    \A N \in 1..MaxChunks :
       Uploaded(N * CHUNK_SIZE) => /\ Len(client.puts) = N
                                   /\ LastChunks = {N}

(* C19: the upload of a non-empty file smaller than the chunk size issues   *)
(* exactly one PUT request, and it carries isLastChunk.                     *)
C19_SmallFileUploadsOneChunk ==
    \A n \in {m \in FileSizes : 0 < m /\ m < CHUNK_SIZE} :
       Uploaded(n) => /\ Len(client.puts) = 1
                      /\ LastChunks = {1}

(* C20: a download resolves only when its session reached DONE and the      *)
(* content was written to the file; while the session is PENDING or         *)
(* IN_PROGRESS it polls; with any other status it does not resolve.         *)
C20_DownloadResolvesOnlyWhenDone ==
    client.call = "download" =>
       /\ client.outcome = "resolved" => (client.status = "DONE" /\ client.written)
       /\ (client.status \in {"PENDING", "IN_PROGRESS"} /\ client.outcome = "pending")
             => client.pc = "poll"
       /\ client.status \in (SessionAnswers \ {"PENDING", "IN_PROGRESS", "DONE", "error"})
             => client.outcome # "resolved"

-----------------------------------------------------------------------------
\* What pipeline p did in the last step.
DoneBy(p) == {i \in DOMAIN out : out[i].pipe = p /\ out[i].type # "abort"}

(* C21: the turn that receives a start-* message only arms the timer; until *)
(* the timer fires the pipeline checks no registry, claims nothing and      *)
(* touches nothing.  The turn that receives an abort-* message makes the    *)
(* registry lookup and the signal, the FAILED update or the refusal itself. *)
C21_StartDelayedAbortImmediate ==
    [][/\ \A p \in Pipes :
            /\ (study[p].pc = "idle" /\ study'[p].pc # "idle")
                 => /\ study'[p].pc = "delay"
                    /\ out' = << >>
                    /\ UNCHANGED <<studies, ws, crashed>>
            /\ study'[p].pc = "delay" => DoneBy(p)' = {}
            /\ (DoneBy(p)' # {} /\ ~Executing(p) /\ ~Terminated(p)) => Starts(p)
       /\ Aborted'
            => /\ out'[1].pipe = StudyCacheGet(studies, out'[1].task[2])
               /\ Len(out') = 2
               /\ out'[2].type \in {"kill", "update", "error"}
               /\ out'[2].type = "update" => out'[2].status = BG_TASK_STATUS_FAILED
               /\ UNCHANGED <<studies, ws, crashed>>]_vars

\* An abort has just been answered with its FAILED update while a start
\* message of the same study waits for its timer.
C21_Witness ==
    /\ Aborted
    /\ Len(out) = 2 /\ out[2].type = "update"
    /\ \E p \in Pipes : study[p].pc = "delay" /\ study[p].nodeRef = out[1].task[2]

-----------------------------------------------------------------------------
\* The last step handled a message parseMessage could not dispatch.
Undispatched == out # << >> /\ out[1].type = "message"

(* C22: no turn of the dispatcher ends the worker.  A message that is not   *)
(* JSON or has no usable nodeRef is logged and changes nothing; a message   *)
(* with an unknown cmd changes nothing, calls nothing, spawns and signals   *)
(* nothing.                                                                 *)
C22_DispatcherNeverThrows ==
    [][/\ (Aborted' \/ Undispatched' \/ \E p \in Pipes : study[p].pc = "idle" /\ study'[p].pc # "idle")
            => ~crashed'
       /\ Undispatched'
            => /\ UNCHANGED <<study, studies, ws, crashed>>
               /\ \A i \in DOMAIN out' : out'[i].type \in {"message", "log"}
               /\ out'[1].stderr \in {"not JSON", "no nodeRef"} <=> Sent("log")' # {}]_vars

\* A message without a usable nodeRef has just been logged and dropped while
\* a pipeline was running a program.
C22_Witness ==
    /\ Undispatched
    /\ out[1].stderr = "no nodeRef"
    /\ Sent("log") # {}
    /\ StudyCacheExists(studies, "n1")
    /\ \E p \in Pipes : study[p].child = "alive"

(* C23: every signal an abort sends goes to the process group of a child    *)
(* that is alive and that the pending operation of the aborted pipeline     *)
(* spawned; none goes to the group of a child that has exited.              *)
C23_SignalsOnlyLiveChild ==
    \A i \in Sent("kill") :
       /\ out[i].status \in {"alive", "killed"}
       /\ ChildInFlight(study[out[i].pipe])
       /\ Awaits(out[i].pipe, ChildOps)

(* C24: an abort for the stage of the registered execution, handled while   *)
(* no child of the pipeline is alive, leaves the pipeline as it is: its     *)
(* status, its pending operation, the registry and the workspace are        *)
(* unchanged and no update is sent, so everything it could do before,       *)
(* ending DONE included, it can do after.                                   *)
C24_AbortBetweenProgramsIgnored ==
    [][\A p \in Pipes :
         (AbortsRegistered(p) /\ ~ChildInFlight(study[p]))
            => /\ UNCHANGED <<study, studies, ws, crashed>>
               /\ Executing(p)'
               /\ Sent("update")' = {}]_vars

\* An abort-postproc has just been handled while the upload of the results
\* was under way, and the upload can still succeed and end the pipeline DONE.
C24_Witness ==
    /\ Aborted
    /\ \E p \in Pipes :
          /\ out[1].pipe = p
          /\ AbortMatches(out[1], study[p])
          /\ Awaits(p, {"upload"})
          /\ ~ChildInFlight(study[p])
          /\ ENABLED (UploadDone(p, TRUE) /\ study'[p].final = BG_TASK_STATUS_DONE)

-----------------------------------------------------------------------------
\* This step ends pipeline p on the code-0 close of its last operation, the
\* compression: no step of the chain has failed.
EndsUnfailed(p) ==
    /\ Ends(p)
    /\ study[p].at = Len(OpsOf(study[p].cmd))
    /\ Closed(p, "7z", "0")' # {}

(* C25: the final update of a claimed simulation never carries RUNNING:     *)
(* when no step failed the status is the recorded status of the task if     *)
(* that is DONE or FAILED, and FAILED otherwise; when a step failed, the    *)
(* compression after a simulation judged DONE included, it is FAILED.       *)
C25_SimulationFinalStatus ==
    [][\A p \in Pipes :
         (study[p].cmd = STUDY_STEP_SIMULATION /\ Ends(p) /\ study'[p].claimed)
            => /\ study'[p].final \in TerminalStatus
               /\ \A i \in SentBy("update", p)' : out'[i].status = study'[p].final
               /\ SentBy("update", p)' # {}
               /\ EndsUnfailed(p)
                    => study'[p].final = (IF study[p].rec \in TerminalStatus
                                          THEN study[p].rec ELSE BG_TASK_STATUS_FAILED)
               /\ ~EndsUnfailed(p) => study'[p].final = BG_TASK_STATUS_FAILED]_vars

\* A simulation judged DONE has just ended DONE on the close of its
\* compression.
C25_Witness ==
    \E p \in Pipes :
       /\ study[p].cmd = STUDY_STEP_SIMULATION
       /\ study[p].pc = "done"
       /\ Closed(p, "7z", "0") # {}
       /\ study[p].final = BG_TASK_STATUS_DONE
       /\ \E i \in SentBy("update", p) : out[i].status = BG_TASK_STATUS_DONE

-----------------------------------------------------------------------------
(* C26: when emiCalc exits with code 0 and its stderr matches IndexError:,  *)
(* the same step ends the post-processing pipeline: nothing is spawned, the *)
(* final update carries FAILED and stderr "emicalc failed.", and none of    *)
(* meanAndConcat, probesMeanYear, polluant, compress, upload has run or     *)
(* will run.                                                                *)
C26_EmiCalcIndexErrorFails ==
    [][\A p \in Pipes :
         (\E i \in Closed(p, "emiCalc", "0")' : out'[i].stderr = "fatal")
            => /\ Ends(p)
               /\ SentBy("spawn", p)' = {}
               /\ Cardinality(SentBy("update", p)') = 1
               /\ \A i \in SentBy("update", p)' :
                     /\ out'[i].status = BG_TASK_STATUS_FAILED
                     /\ out'[i].stderr = "emicalc failed."
               /\ \A j \in DOMAIN study[p].trail :
                     study[p].trail[j] \notin {"meanAndConcat", "probesMeanYear", "polluant",
                                               "compress", "uploading", "upload"}
               /\ \A q \in DOMAIN out' : out'[q].pipe = p =>
                     out'[q].type \in {"close", "update"}]_vars

\* emiCalc has just exited with code 0 and IndexError: in its stderr, and the
\* pipeline has ended FAILED.
C26_Witness ==
    \E p \in Pipes :
       /\ \E i \in Closed(p, "emiCalc", "0") : out[i].stderr = "fatal"
       /\ study[p].pc = "done"
       /\ \E i \in SentBy("update", p) : out[i].stderr = "emicalc failed."

-----------------------------------------------------------------------------
\* The program prg of pipeline p has closed in the last step with code 0 and
\* an output that matches the pattern its handler scans for.
ContentFailure(p, prg) == {i \in Closed(p, prg, "0") : out[i].stderr = "fatal"}

\* A child of pipeline p has closed in the last step with a non-zero code or
\* by a signal.
ProcessFailure(p) == {i \in SentBy("close", p) : out[i].status # "0"}

(* C27 as stated: a content-pattern failure of the simulation program or of *)
(* emiCalc does what a process failure does: the step that sees it runs the *)
(* failure branch and ends the pipeline FAILED.                             *)
C27_ContentFailureLikeProcessFailure ==
    [][\A p \in Pipes :
         (ContentFailure(p, "simulation")' \cup ContentFailure(p, "emiCalc")'
             \cup ProcessFailure(p)' # {})
            => /\ Ends(p)
               /\ study'[p].final = BG_TASK_STATUS_FAILED]_vars

(* C27 amended: a process failure, and a content-pattern failure of         *)
(* emiCalc, end the pipeline FAILED in the step that sees them, with no     *)
(* later step; a content-pattern failure of the simulation program does     *)
(* not: the pipeline records FAILED for the task, goes on with the          *)
(* "compressing" update and the compression, and whenever it ends it ends   *)
(* FAILED.                                                                  *)
C27_ContentFailureBySimulationGoesOn ==
    [][\A p \in Pipes :
         /\ (ContentFailure(p, "emiCalc")' \cup ProcessFailure(p)' # {})
              => /\ Ends(p)
                 /\ study'[p].final = BG_TASK_STATUS_FAILED
                 /\ SentBy("spawn", p)' = {}
         /\ ContentFailure(p, "simulation")' # {}
              => /\ Executing(p)'
                 /\ study'[p].rec = BG_TASK_STATUS_FAILED
                 /\ PendingOp(p)' = Op("update", "compressing")
                 /\ \E i \in SentBy("update", p)' :
                       out'[i].stage = "compressing" /\ out'[i].status = BG_TASK_STATUS_RUNNING
         /\ (study[p].cmd = STUDY_STEP_SIMULATION /\ study[p].rec = BG_TASK_STATUS_FAILED
                /\ Executing(p))
              => \/ Executing(p)' /\ study'[p].rec = BG_TASK_STATUS_FAILED
                 \/ Ends(p) /\ study'[p].final = BG_TASK_STATUS_FAILED]_vars

\* The simulation program has just exited with code 0 and a fatal message in
\* its output, and the pipeline has gone on to report "compressing".
C27_Witness ==
    \E p \in Pipes :
       /\ ContentFailure(p, "simulation") # {}
       /\ Executing(p)
       /\ PendingOp(p) = Op("update", "compressing")

-----------------------------------------------------------------------------
\* The programs of the post-processing chain, in the order of its execute()
\* calls.
PostprocPrograms == << "emiCalc", "meanAndConcat", "probesMeanYear", "polluant" >>

\* What a post-processing run does in which every step succeeds: the labels
\* it reports, the transfers and the programs between them.
PostprocTrail ==
    << "uncompress", "download", "extraction", "extract",
       "emiCalc", "emiCalc", "meanAndConcat", "meanAndConcat",
       "probesMeanYear", "probesMeanYear", "polluant", "polluant",
       "compress", "uploading", "upload" >>

\* Pipeline p has moved in the last step to the operation o of its chain.
MovesTo(p, o) ==
    /\ study'[p].at # study[p].at
    /\ Executing(p)'
    /\ PendingOp(p)' = o

(* C28: a post-processing pipeline spawns emiCalc, meanAndConcat,           *)
(* probesMeanYear and polluant in this order, each one only in answer to    *)
(* the progress update that was sent when the program before it closed      *)
(* with code 0; a child that closes otherwise ends the pipeline in that     *)
(* step; the compression is started only after polluant closed with code    *)
(* 0, the upload only after the compression closed with code 0, and the     *)
(* result becomes DONE only in the step in which the upload succeeded,      *)
(* after all of the above has run.                                          *)
C28_PostprocProgramsInOrder ==
    [][\A p \in Pipes : study[p].cmd = STUDY_STEP_POSTPROC =>
         /\ Executing(p)' => IsPrefix(study'[p].trail, PostprocTrail)
         /\ \A k \in 1..4 :
               /\ (\E i \in SentBy("spawn", p)' : out'[i].stage = PostprocPrograms[k])
                     => /\ PendingOp(p) = Op("update", PostprocPrograms[k])
                        /\ study'[p].trail = SubSeq(PostprocTrail, 1, 4 + 2 * k)
               /\ (k > 1 /\ MovesTo(p, Op("update", PostprocPrograms[k])))
                     => Closed(p, PostprocPrograms[k - 1], "0")' # {}
         /\ ProcessFailure(p)' # {} => Ends(p)
         /\ MovesTo(p, Op("update", "compress")) => Closed(p, "polluant", "0")' # {}
         /\ MovesTo(p, Op("compress", STUDY_STEP_POSTPROC))
               => PendingOp(p) = Op("update", "compress")
         /\ MovesTo(p, Op("update", "uploading")) => Closed(p, "7z", "0")' # {}
         /\ MovesTo(p, Op("upload", "final-results.7z"))
               => PendingOp(p) = Op("update", "uploading")
         /\ (Ends(p) /\ study'[p].final = BG_TASK_STATUS_DONE)
               => /\ PendingOp(p) = Op("upload", "final-results.7z")
                  /\ study[p].trail = PostprocTrail]_vars

\* A post-processing pipeline has just ended DONE.
C28_Witness ==
    \E p \in Pipes :
       /\ study[p].cmd = STUDY_STEP_POSTPROC
       /\ study[p].pc = "done"
       /\ study[p].final = BG_TASK_STATUS_DONE
       /\ \E i \in SentBy("update", p) : out[i].status = BG_TASK_STATUS_DONE

-----------------------------------------------------------------------------
\* The last step is the failure of the operation pipeline p was waiting for:
\* a rejected repository call, a failed download, extraction or upload, the
\* close of a child with a non-zero code or by a signal, or a spawn that
\* failed when the operation before it had succeeded.
StepFails(p) ==
    \/ ClaimAnswer(p, "error")
    \/ UpdateAnswer(p, FALSE)
    \/ GetFolderAnswer(p, FALSE)
    \/ DownloadDone(p, FALSE)
    \/ ExtractDone(p, "fail")
    \/ ExtractDone(p, "crash")
    \/ UploadDone(p, FALSE)
    \/ ProcessFailure(p)' # {}
    \/ /\ Ends(p)
       /\ study[p].child # "dead" /\ study'[p].child = "dead"
       /\ SentBy("close", p)' = {}

(* C29: the step in which an operation of a pipeline fails runs the         *)
(* finaliser, starts no later operation and leaves the status FAILED, and   *)
(* the final update, when one is sent, carries FAILED and the error message *)
(* or the stderr of the child.                                              *)
C29_FirstFailureEndsFailed ==
    [][\A p \in Pipes : StepFails(p) =>
         /\ Ends(p)
         /\ study'[p].final = BG_TASK_STATUS_FAILED
         /\ \A i \in DOMAIN out' :
               out'[i].pipe = p => out'[i].type \in {"answer", "close", "update"}
         /\ \A i \in SentBy("update", p)' :
               /\ out'[i].status = BG_TASK_STATUS_FAILED
               /\ out'[i].stderr \notin {"", "-", "undefined"}]_vars

-----------------------------------------------------------------------------
\* The finaliser of pipeline p has sent the final update and its answer has
\* not come yet.
FinalUpdateInFlight(p) == study[p].pc = "done" /\ study[p].finals > 0

\* The last step handled the answer to the final update of pipeline p.
FinalUpdateAnswered(p) == study[p].pc = "done" /\ study'[p].pc = "closed"

\* The abort of the last step sent its own update, FAILED, for the task of
\* pipeline p.
OwnUpdate(p) ==
    /\ Len(out) = 2
    /\ out[2].type = "update"
    /\ out[2].pipe = NoStudy
    /\ out[2].task = TaskOfStudy(study[p])
    /\ out[2].status = BG_TASK_STATUS_FAILED

(* C30 as stated: the step that runs the finaliser empties the registry     *)
(* entry of the study and sends the final update without waiting for its    *)
(* answer; an abort for the task handled while that answer is outstanding   *)
(* finds no registry entry and sends its own FAILED update; the answer,     *)
(* whatever it is, is at most logged and changes nothing else.              *)
C30_AbortDuringFinalUpdate ==
    [][\A p \in Pipes :
         /\ Ends(p)
               => /\ ~StudyCacheExists(studies', study[p].nodeRef)
                  /\ HasRecord(study[p]) => FinalUpdateInFlight(p)'
         /\ (FinalUpdateInFlight(p) /\ Aborted' /\ AbortMatches(out'[1], study[p]))
               => /\ out'[1].pipe = NoStudy
                  /\ OwnUpdate(p)'
         /\ FinalUpdateAnswered(p)
               => /\ study' = [study EXCEPT ![p].pc = "closed"]
                  /\ \A i \in DOMAIN out' : out'[i].type = "log"
                  /\ UNCHANGED <<studies, ws, crashed>>]_vars

(* C30 amended: the step that runs the finaliser empties the registry entry *)
(* of the study and sends the final update without waiting for its answer;  *)
(* an abort for the task handled while that answer is outstanding never     *)
(* finds that pipeline in the registry, and sends its own FAILED update     *)
(* when no other pipeline of the study has registered since; the answer,    *)
(* whatever it is, is at most logged and changes nothing else.              *)
C30_AbortDuringFinalUpdateUnlessReregistered ==
    [][\A p \in Pipes :
         /\ Ends(p)
               => /\ ~StudyCacheExists(studies', study[p].nodeRef)
                  /\ HasRecord(study[p]) => FinalUpdateInFlight(p)'
         /\ (FinalUpdateInFlight(p) /\ Aborted' /\ AbortMatches(out'[1], study[p]))
               => /\ out'[1].pipe # p
                  /\ ~StudyCacheExists(studies, study[p].nodeRef)
                        => (out'[1].pipe = NoStudy /\ OwnUpdate(p)')
         /\ FinalUpdateAnswered(p)
               => /\ study' = [study EXCEPT ![p].pc = "closed"]
                  /\ \A i \in DOMAIN out' : out'[i].type = "log"
                  /\ UNCHANGED <<studies, ws, crashed>>]_vars

\* An abort for the task of a pipeline whose final update is outstanding
\* has just found no registry entry and sent its own FAILED update.
C30_Witness ==
    \E p \in Pipes :
       /\ FinalUpdateInFlight(p)
       /\ Aborted
       /\ AbortMatches(out[1], study[p])
       /\ out[1].pipe = NoStudy
       /\ OwnUpdate(p)

-----------------------------------------------------------------------------
(* Study.execute, followed step by step: the argument builder with its      *)
(* checks of the disk, the spawn, the data of the child's streams, and the  *)
(* 'error' and 'close' events that settle the promise.                      *)

\* The longest descriptor list, and the most chunks the streams deliver.
MaxArgs == 2
MaxData == 1

\* An argument descriptor { opt, val, type, createIfMissing }; "null" is an
\* absent member.
Descriptor(opt, val, type, createIfMissing) ==
    [opt |-> opt, val |-> val, type |-> type, createIfMissing |-> createIfMissing]

\* A descriptor together with what the disk holds at its interpolated val:
\* nothing, a directory or a regular file.
Descriptors ==
    {<<Descriptor(o, "null", ty, FALSE), "missing">> :
        o \in {"null", "-o"}, ty \in {"none", "d", "f"}}
    \cup {<<Descriptor(o, "path", "none", FALSE), k>> :
        o \in {"null", "-o"}, k \in {"missing", "file"}}
    \cup {<<Descriptor(o, "path", "d", c), k>> :
        o \in {"null", "-o"}, c \in BOOLEAN, k \in {"missing", "dir", "file"}}
    \cup {<<Descriptor(o, "path", "f", FALSE), k>> :
        o \in {"null", "-o"}, k \in {"missing", "dir", "file"}}

DescriptorLists == UNION {[1..n -> Descriptors] : n \in 0..MaxArgs}

ExecInit ==
    /\ refs = {}
    /\ study = [p \in Pipes |-> NewStudy]
    /\ studies = [n \in NodeRefs |-> NoStudy]
    /\ ws = [n \in NodeRefs |-> "absent"]
    /\ crashed = FALSE
    /\ out = << >>
    /\ client = NoCall
    /\ exec \in {Execution([i \in DOMAIN l |-> l[i][1]], [i \in DOMAIN l |-> l[i][2]]) :
                    l \in DescriptorLists}

ExecStep(e) ==
    /\ exec' = e
    /\ UNCHANGED <<refs, study, studies, ws, crashed, out, client>>

\* Variant: a failed check is passed over and the program is spawned.
Throw_Ignored(e, msg) == [e EXCEPT !.pc = "spawn"]

\* throw new ConfigurationError( ... ): execute() returns no promise.
Throw(e, msg) == [e EXCEPT !.pc = "thrown", !.thrown = msg]

\* The body of args.forEach for the descriptors from the i-th on: push the
\* opt, push the interpolated val, check the val against the disk by type.
\* mkdir tells whether Fs.mkdirSync succeeds.
RECURSIVE Expand(_, _, _)
Expand(e, i, mkdir) ==
    IF i > Len(e.args) THEN [e EXCEPT !.pc = "spawn"]
    ELSE LET a == e.args[i]
             e1 == IF a.opt # "null" THEN [e EXCEPT !.argv = Append(@, <<"opt", i>>)] ELSE e
             e2 == [e1 EXCEPT !.argv = Append(@, <<"val", i>>)]
         IN  IF a.val = "null" THEN Expand(e1, i + 1, mkdir)
             ELSE CASE a.type = "d" ->
                         IF e.disk[i] = "missing"
                         THEN IF ~a.createIfMissing THEN Throw(e2, "not found")
                              ELSE IF ~mkdir THEN Throw(e2, "failed to create directory")
                              ELSE Expand([e2 EXCEPT !.disk[i] = "dir"], i + 1, mkdir)
                         ELSE IF e.disk[i] # "dir" THEN Throw(e2, "is not a directory")
                         ELSE Expand(e2, i + 1, mkdir)
                    [] a.type = "f" ->
                         IF e.disk[i] = "missing" THEN Throw(e2, "not found")
                         ELSE IF e.disk[i] # "file" THEN Throw(e2, "is not a file")
                         ELSE Expand(e2, i + 1, mkdir)
                    [] OTHER -> Expand(e2, i + 1, mkdir)

\* execute() up to the creation of the promise.
BuildArgs(mkdir) ==
    /\ exec.pc = "build"
    /\ ExecStep(Expand(exec, 1, mkdir))

\* Variant: a later reject or resolve replaces the outcome.
Settle_Overwriting(e, o) == [e EXCEPT !.outcome = o]

\* resolve() and reject() of the promise: only the first call counts.
Settle(e, o) == IF e.outcome.kind = "pending" THEN [e EXCEPT !.outcome = o] ELSE e

\* What the promise settles to.
Outcome(kind, code, signal, stdout, stderr) ==
    [kind |-> kind, code |-> code, signal |-> signal, stdout |-> stdout, stderr |-> stderr]

\* An event of the child as the handlers of execute() saw it.
ChildEvent(type, code, signal) == [type |-> type, code |-> code, signal |-> signal]

\* spawn(): the child runs, or its 'error' event rejects with code -127.
SpawnChild(ok) ==
    /\ exec.pc = "spawn"
    /\ ExecStep(IF ok THEN [exec EXCEPT !.pc = "running"]
                ELSE Settle([exec EXCEPT !.pc = "errored",
                                         !.events = Append(@, ChildEvent("error", "-", "-"))],
                            Outcome("rejected", "-127", "null", << >>, <<"err.message">>)))

\* A 'data' event of the child's stdout or stderr.
ChildData(stream) ==
    /\ exec.pc = "running"
    /\ Len(exec.stdout) + Len(exec.stderr) < MaxData
    /\ ExecStep(IF stream = "stdout" THEN [exec EXCEPT !.stdout = Append(@, "data")]
                ELSE [exec EXCEPT !.stderr = Append(@, "data")])

\* The (code, signal) pairs of a 'close' event: an exit code, or null and
\* the signal; after a failed spawn the negative errno.
CloseEvents(pc) ==
    IF pc = "errored" THEN {<<"-2", "null">>}
    ELSE {<<"0", "null">>, <<"1", "null">>, <<"null", "SIGTERM">>}

\* `if ( x )` of a code or a signal; codes are written as numerals.
Truthy(x) == x \notin {"0", "null"}

\* The 'close' handler.
CloseHandler(e, code, signal) ==
    LET e1 == [e EXCEPT !.pc = "closed",
                        !.events = Append(@, ChildEvent("close", code, signal))]
        l1 == IF Truthy(code) THEN e.stderr \o << <<"Terminated with status code", code>> >>
              ELSE e.stderr
        l2 == IF Truthy(signal) THEN l1 \o << <<"Terminated by signal", signal>> >>
              ELSE l1
    IN  IF Truthy(code) \/ Truthy(signal)
        THEN Settle(e1, Outcome("rejected", code, signal, e.stdout, l2))
        ELSE Settle(e1, Outcome("resolved", "-", "-", e.stdout, e.stderr))

ChildClosed(code, signal) ==
    /\ exec.pc \in {"running", "errored"}
    /\ <<code, signal>> \in CloseEvents(exec.pc)
    /\ ExecStep(CloseHandler(exec, code, signal))

ExecNext ==
    \/ \E mkdir \in BOOLEAN : BuildArgs(mkdir)
    \/ \E ok \in BOOLEAN : SpawnChild(ok)
    \/ \E stream \in {"stdout", "stderr"} : ChildData(stream)
    \/ \E code \in {"-2", "0", "1", "null"}, signal \in {"null", "SIGTERM"} : ChildClosed(code, signal)

ExecSpec == ExecInit /\ [][ExecNext]_vars

-----------------------------------------------------------------------------
\* The first event of the child that the handlers of execute() saw.
FirstEvent == exec.events[1]

(* C31: the promise of execute() is settled by the first event of the child *)
(* and by nothing after it: resolved with (stdout, stderr) iff that event   *)
(* is a close with code 0 and no signal; rejected with the code, the        *)
(* signal, stdout, and stderr followed by the lines naming the code and the *)
(* signal, iff it is a close with a non-zero code or a signal; rejected     *)
(* with code -127 iff it is the 'error' of a failed spawn; a close that     *)
(* follows the 'error' leaves the outcome as it is.                         *)
C31_OneOutcomePerProgram ==
    /\ [](exec.pc \in {"running", "errored", "closed"} =>
            /\ exec.outcome.kind = "pending" <=> exec.events = << >>
            /\ exec.events # << >> =>
                  LET ev == FirstEvent
                      o == exec.outcome
                      failed == Truthy(ev.code) \/ Truthy(ev.signal)
                  IN  /\ o.kind = "resolved" <=> (ev.type = "close" /\ ~failed)
                      /\ (ev.type = "close" /\ ~failed)
                            => (o.stdout = exec.stdout /\ o.stderr = exec.stderr)
                      /\ (ev.type = "close" /\ failed)
                            => /\ o = Outcome("rejected", ev.code, ev.signal, exec.stdout, o.stderr)
                               /\ o.code # "-127"
                               /\ SubSeq(o.stderr, 1, Len(exec.stderr)) = exec.stderr
                               /\ Len(o.stderr) = Len(exec.stderr) + 1
                               /\ o.stderr[Len(o.stderr)] \in
                                     {<<"Terminated with status code", ev.code>>,
                                      <<"Terminated by signal", ev.signal>>}
                               /\ o.stderr[Len(o.stderr)][2] # "null"
                      /\ (o.kind = "rejected" /\ o.code = "-127") <=> ev.type = "error")
    /\ [][exec.outcome.kind # "pending" => exec'.outcome = exec.outcome]_vars

\* The spawn failed and the close event that followed has been handled: the
\* promise stays rejected with code -127.
C31_Witness ==
    /\ Len(exec.events) = 2
    /\ exec.events[1].type = "error"
    /\ exec.events[2].type = "close"
    /\ exec.outcome.kind = "rejected"
    /\ exec.outcome.code = "-127"

-----------------------------------------------------------------------------
\* The argv tokens of the i-th descriptor: its opt, then its val.
Tokens(a, i) ==
    (IF a.opt # "null" THEN << <<"opt", i>> >> ELSE << >>)
       \o (IF a.val # "null" THEN << <<"val", i>> >> ELSE << >>)

\* The tokens of the descriptors i..k of the list, in list order.
RECURSIVE TokensOf(_, _, _)
TokensOf(args, i, k) ==
    IF i > k THEN << >> ELSE Tokens(args[i], i) \o TokensOf(args, i + 1, k)

\* The check of descriptor a fails on a disk that holds `kind` at its val.
Invalid(a, kind) ==
    /\ a.val # "null"
    /\ \/ a.type = "d" /\ kind = "missing" /\ ~a.createIfMissing
       \/ a.type = "d" /\ kind = "file"
       \/ a.type = "f" /\ kind # "file"

\* Descriptor a asks for a directory that is to be created.
Creates(a, kind) ==
    a.val # "null" /\ a.type = "d" /\ kind = "missing" /\ a.createIfMissing

(* C32: the builder turns the descriptors, in list order, into the opt      *)
(* token and then the val token of each, where present.  A val of type d    *)
(* that is missing is created when createIfMissing is set and fails         *)
(* otherwise, one that is a file fails; a val of type f that is missing or  *)
(* no regular file fails; nothing else is checked.  The first descriptor    *)
(* that fails ends the expansion: the program is spawned iff no descriptor  *)
(* fails, and of the descriptors after the failing one nothing is pushed,   *)
(* checked or created.                                                      *)
C32_ArgumentsExpandedInOrder ==
    [][exec.pc = "build" =>
         LET args == exec.args
             n == Len(args)
             bad == {i \in 1..n : Invalid(args[i], exec.disk[i])}
             stop == {i \in 1..n : \/ i \in bad
                                   \/ /\ Creates(args[i], exec.disk[i])
                                      /\ exec'.thrown = "failed to create directory"}
             last == IF stop = {} THEN n ELSE CHOOSE i \in stop : \A j \in stop : i <= j
         IN  /\ exec'.pc \in {"spawn", "thrown"}
             /\ exec'.pc = "spawn" <=> stop = {}
             /\ exec'.argv = TokensOf(args, 1, last)
             /\ \A i \in 1..n : Len(Tokens(args[i], i)) \in 0..2
             /\ \A i \in 1..n :
                   exec'.disk[i] = IF i <= last /\ i \notin stop /\ Creates(args[i], exec.disk[i])
                                   THEN "dir" ELSE exec.disk[i]
             /\ exec'.pc = "thrown" /\ last \in bad
                   => exec'.thrown \in {"not found", "is not a directory", "is not a file"}]_vars

\* The builder created the directory of the first descriptor and stopped at
\* the second, which failed its check, after pushing its tokens.
C32_Witness ==
    /\ exec.pc = "thrown"
    /\ Len(exec.args) = 2
    /\ exec.args[1].createIfMissing /\ exec.disk[1] = "dir"
    /\ exec.thrown = "not found"
    /\ exec.argv = TokensOf(exec.args, 1, 2)
    /\ Len(exec.argv) = 4

-----------------------------------------------------------------------------
\* The last step handled an abort-* message for the task whose start
\* message pipeline p is holding back until its timer fires.
AbortsDelayed(p) ==
    /\ study[p].pc = "delay"
    /\ Aborted'
    /\ AbortMatches(out'[1], study[p])

\* What the start of pipeline p does when its timer fires: the registry
\* check, and the claim call when the study is not registered; and what the
\* answer RUNNING to that call does: the pipeline is registered and runs.
StartsAsEver(p) ==
    /\ Starts(p)
          => IF StudyCacheExists(studies, study[p].nodeRef)
             THEN study'[p].pc = "rejected" /\ SentBy("claim", p)' = {}
             ELSE /\ Awaits(p, {"claim"})'
                  /\ \E i \in SentBy("claim", p)' : out'[i].task = TaskOfStudy(study[p])
    /\ (Awaits(p, {"claim"}) /\ \E i \in SentBy("answer", p)' :
                                    out'[i].status = BG_TASK_STATUS_RUNNING)
          => /\ study'[p].claimed
             /\ \/ Executing(p)' /\ StudyCacheGet(studies', study[p].nodeRef) = p
                \/ Ends(p)

(* C33 as stated: an abort handled while the start message of the same      *)
(* task waits for its timer finds the registry empty and sends a FAILED     *)
(* update; the waiting start is left as it is, and when the timer fires it  *)
(* checks the registry, calls the claim endpoint and runs if the answer is  *)
(* RUNNING.                                                                 *)
C33_AbortDuringDelay ==
    [][\A p \in Pipes :
         /\ AbortsDelayed(p)
               => /\ out'[1].pipe = NoStudy
                  /\ OwnUpdate(p)'
                  /\ study'[p] = study[p]
         /\ StartsAsEver(p)]_vars

(* C33 amended: an abort handled while the start message of the same task   *)
(* waits for its timer leaves the waiting start and the registry as they    *)
(* are, and sends a FAILED update when no pipeline of the study is          *)
(* registered; when the timer fires the start checks the registry, calls    *)
(* the claim endpoint and runs if the answer is RUNNING.                    *)
C33_AbortDuringDelayUnlessRegistered ==
    [][\A p \in Pipes :
         /\ AbortsDelayed(p)
               => /\ study'[p] = study[p]
                  /\ studies' = studies
                  /\ out'[1].pipe # p
                  /\ ~StudyCacheExists(studies, study[p].nodeRef)
                        => (out'[1].pipe = NoStudy /\ OwnUpdate(p)')
         /\ StartsAsEver(p)]_vars

\* An abort has just sent its own FAILED update for a task whose start is
\* still waiting for its timer, and the start can go on.
C33_Witness ==
    \E p \in Pipes :
       /\ study[p].pc = "delay"
       /\ Aborted
       /\ AbortMatches(out[1], study[p])
       /\ out[1].pipe = NoStudy
       /\ OwnUpdate(p)
       /\ ENABLED (StartMeshing(p) \/ StartSimulation(p) \/ Postproc(p))

-----------------------------------------------------------------------------
\* The last step handled an abort-simulation that found pipeline p
\* registered for the study, in the simulation step, with a claimed
\* simulation other than the one the message names.
AbortsOtherSimulation(p) ==
    /\ Aborted'
    /\ out'[1].task[1] = STUDY_STEP_SIMULATION
    /\ out'[1].pipe = p
    /\ study[p].step = STUDY_STEP_SIMULATION
    /\ study[p].simNodeRef # out'[1].stage

(* C34: an abort-simulation for a study whose registered execution is in    *)
(* the simulation step with another simulation reference sends exactly one  *)
(* update, FAILED with stderr "user aborted", for the reference the message *)
(* names, sends no signal, and changes neither a pipeline nor the registry. *)
C34_AbortOtherSimulation ==
    [][\A p \in Pipes :
         AbortsOtherSimulation(p)
            => /\ Len(out') = 2
               /\ out'[2] = Ev("update", NoStudy, <<STUDY_STEP_SIMULATION, out'[1].stage>>,
                               BG_TASK_STATUS_FAILED, "null", "user aborted")
               /\ Sent("kill")' = {}
               /\ UNCHANGED <<study, studies, ws, crashed>>]_vars

\* Such an abort has just been handled while the child of the running
\* simulation is alive.
C34_Witness ==
    \E p \in Pipes :
       /\ Aborted
       /\ out[1].task[1] = STUDY_STEP_SIMULATION
       /\ out[1].pipe = p
       /\ study[p].step = STUDY_STEP_SIMULATION
       /\ study[p].simNodeRef # out[1].stage
       /\ study[p].child = "alive"
       /\ Executing(p)
       /\ Sent("update") # {}

-----------------------------------------------------------------------------
\* The last step is one of the failures of pipeline p: the claim call
\* rejected or answered with a status other than RUNNING, a failed
\* pre-spawn check, a child closing with a non-zero code or by a signal, a
\* failed upload, update, folder lookup or download, or an archive the
\* parser rejects.
ChainFails(p) ==
    \/ \E i \in SentBy("answer", p)' : out'[i].status # BG_TASK_STATUS_RUNNING
    \/ ValidationFailed(p)' # {}
    \/ ProcessFailure(p)' # {}
    \/ UploadDone(p, FALSE)
    \/ UpdateAnswer(p, FALSE)
    \/ GetFolderAnswer(p, FALSE)
    \/ DownloadDone(p, FALSE)
    \/ ExtractDone(p, "fail")

-----------------------------------------------------------------------------
(* Two studies at once: the first start message names one study, the second *)
(* the other; aborts name either.                                           *)

RefOf(p) == IF p = 1 THEN "n1" ELSE "n2"

ApartInit == Start({RefOf(p) : p \in Pipes})

ApartNext ==
    \/ \E p \in Pipes, g \in Stages, sn \in SimRefs : Receive(p, g, RefOf(p), sn)
    \/ \E p \in Pipes : StartMeshing(p)
    \/ \E p \in Pipes : StartSimulation(p)
    \/ \E p \in Pipes : Postproc(p)
    \/ \E p \in Pipes, a \in ClaimAnswers : ClaimAnswer(p, a)
    \/ \E p \in Pipes, ok \in BOOLEAN : UpdateAnswer(p, ok)
    \/ \E p \in Pipes, ok \in BOOLEAN : GetFolderAnswer(p, ok)
    \/ \E p \in Pipes, ok \in BOOLEAN : DownloadDone(p, ok)
    \/ \E p \in Pipes, outcome \in {"files", "nofiles", "fail", "crash"} :
          ExtractDone(p, outcome)
    \/ \E p \in Pipes, ok \in BOOLEAN : UploadDone(p, ok)
    \/ \E p \in Pipes, code \in {0, 1}, mark \in {"clean", "fatal"} : ChildClose(p, code, mark)
    \/ \E p \in Pipes, a \in ClaimAnswers : FinalUpdateAnswer(p, a)
    \/ \E kind \in Unusable : Discard(kind)
    \/ \E n \in refs : AbortMeshing(n)
    \/ \E n \in refs, sn \in SimRefs : AbortSimulation(n, sn)
    \/ \E n \in refs : AbortPostproc(n)

ApartSpec == ApartInit /\ [][ApartNext]_vars

\* The study references whose registry entry, workspace or Study object
\* (child handle, statuses, accumulated output, position) the last step
\* changed.
Touched ==
    {n \in NodeRefs :
        \/ studies'[n] # studies[n]
        \/ ws'[n] # ws[n]
        \/ \E p \in Pipes : study[p].nodeRef = n /\ study'[p] # study[p]}

\* The study references the last step worked for: the study of a pipeline
\* that did something, the study an abort message names.
Served ==
    {study'[p].nodeRef : p \in {q \in Pipes : DoneBy(q)' # {} \/ study'[q] # study[q]}}
       \cup {out'[i].task[2] : i \in {j \in DOMAIN out' : out'[j].type = "abort"}}

-----------------------------------------------------------------------------
\* The number of bytes the PUT requests carried, all together.
RECURSIVE BytesPut(_)
BytesPut(puts) ==
    IF puts = << >> THEN 0 ELSE puts[1].bytes + BytesPut(Tail(puts))

(* C37: an upload that resolved, of a file of any size, has sent PUT        *)
(* requests of which the last one, and only it, carries isLastChunk, none   *)
(* has an empty body unless the file is empty, and their bodies add up to   *)
(* the file.                                                                *)
C37_UploadSendsTheFileOnce ==
    (client.call = "upload" /\ client.outcome = "resolved")
       => /\ client.puts # << >>
          /\ LastChunks = {Len(client.puts)}
          /\ BytesPut(client.puts) = client.fileSize
          /\ \A i \in DOMAIN client.puts :
                client.puts[i].bytes = 0 => client.fileSize = 0
====
